---- MODULE Spec2Model ----
(***************************************************************************)
(* Model of the page-processing pipeline of extract_text:                  *)
(*   extractors.py  extract_pdf_method / _run_pipeline (producer, consumer *)
(*                  thread, OCR worker pool, cleaning workers)             *)
(*   ocr.py         process_ocr_page, ocr_vlm                              *)
(*   clean.py       smart_clean, text_clean, should_clean                  *)
(*   progress.py    load_progress, save_progress, delete_progress          *)
(*   utils.py       shutdown_flag and the interrupt handler                *)
(***************************************************************************)
EXTENDS Integers, Sequences, FiniteSets, TLC

(* ------------------------------ bounds --------------------------------- *)
\* pages of the document (len(doc))
Total == 2
\* cfg.max_workers and cfg.save_interval of the modelled run (-w 2, and
\* save_interval = 2 in the configuration file)
max_workers == 2
save_interval == 2
\* threads that call process_ocr_page at the same time, and models of
\* cfg.models, in the specification of the OCR worker
NumCallers == 1
NumModels == 2
\* the texts given to is_garbage: units of up to MaxUnitLen characters,
\* written up to MaxReps times
MaxUnitLen == 3
\* pages of the document whose round is followed callback by callback
MaxSnapPages == 4
\* entries of cfg.tool_models when the list is not empty
NumToolModels == 2
\* threads that call cfg.next_model and cfg.next_tool_model side by side
NumCursorThreads == 2
\* calls of the two methods that are followed
MaxCursorCalls == 4
\* pages of the document whose page is being cleaned
MaxContextPages == 3
MaxReps == 11

(* -------------------------- program constants -------------------------- *)
min_text_len == 50
min_ocr_len == 20
max_retry_rounds == 3
\* ocr_vlm retries: range(3), and wait = (attempt + 1) * 3
vlm_attempts == 3
backoff_step == 3
\* img_area / page_area > 0.3, in percent
cover_limit == 30
\* is_garbage: len(text) < 10; (.{4,50})\1{4,}; len(text) > 50; more than
\* 10 lines
garbage_min_len == 10
repeat_min_len == 4
repeat_max_len == 50
repeat_copies == 4
share_min_len == 50
lines_min == 10

Pages == 0 .. (Total - 1)

(* ------------------------------- texts --------------------------------- *)
\* embedded text long enough to be used as it is (>= min_text_len characters)
LongText == "embedded text of a born-digital page, sixty characters long."
\* embedded text of a scanned page: a short header only (< min_text_len)
ShortText == "hdr"
\* local OCR output below / at least min_ocr_len characters
ShortOcr == "l0cal"
GoodOcr == "local ocr text of the page"
VlmText == "vlm text of the page"
FixedText == "text rewritten by the clean model"
TEXT_ERROR == "text_error"
TEXT_OK == "TRUE"
\* embedded texts of 10, 49, 50 and 500 characters
Text10 == "0123456789"
Text49 == Text10 \o Text10 \o Text10 \o Text10 \o "012345678"
Text50 == Text49 \o "9"
Text500 == Text50 \o Text50 \o Text50 \o Text50 \o Text50 \o
           Text50 \o Text50 \o Text50 \o Text50 \o Text50

(* ------------------------------ dict ops ------------------------------- *)
EmptyDict == [k \in {} |-> ""]
DictPut(d, k, v) == [x \in (DOMAIN d) \cup {k} |-> IF x = k THEN v ELSE d[x]]
DictPop(d, k) == [x \in (DOMAIN d) \ {k} |-> d[x]]
DictSetDefault(d, k, v) == IF k \in DOMAIN d THEN d ELSE DictPut(d, k, v)

RECURSIVE SetDefaultAll(_, _, _)
SetDefaultAll(d, ks, v) ==
  IF ks = {} THEN d
  ELSE LET k == CHOOSE x \in ks : TRUE
       IN  SetDefaultAll(DictSetDefault(d, k, v), ks \ {k}, v)

RECURSIVE SortedSeq(_)
SortedSeq(s) ==
  IF s = {} THEN << >>
  ELSE LET m == CHOOSE x \in s : \A y \in s : x <= y
       IN  <<m>> \o SortedSeq(s \ {m})

(* --------------------------- progress store ---------------------------- *)
\* the progress file: absent, or {"completed": {str(k): v}}
NoFile == [exists |-> FALSE, completed |-> EmptyDict]

\* int(k) of a key written by str(k)
IntOfKey(s) == CHOOSE n \in 0 .. (Total + MaxSnapPages) : ToString(n) = s

save_progress(res) ==
  [exists |-> TRUE,
   completed |-> [s \in {ToString(k) : k \in DOMAIN res} |-> res[IntOfKey(s)]]]

\* a load that loses the file's content
load_progress_lost(file) == EmptyDict

load_progress(file) ==
  IF ~file.exists THEN EmptyDict
  ELSE [n \in {IntOfKey(s) : s \in DOMAIN file.completed}
          |-> file.completed[ToString(n)]]

delete_progress(file) == NoFile

(* --------------------------- page classifier --------------------------- *)
\* the pages a document is made of: method assigned, embedded text, and
\* the share of the page area its embedded images cover, in percent
TextPage == [method |-> "auto", text |-> LongText, cover |-> 0]
ScanPage == [method |-> "auto", text |-> ShortText, cover |-> 0]
AiPage == [method |-> "ai", text |-> "", cover |-> 0]
PageKinds == {TextPage, AiPage}

\* lines 239-254: img_area / page_area > 0.3, looked at for auto and auto_ai
has_images(page) ==
  page.method \in {"auto", "auto_ai"} /\ page.cover > cover_limit

\* a classifier that does not look at the images
needs_ocr_text_only(page) ==
  \/ page.method \in {"ai", "ocr"}
  \/ /\ page.method \in {"auto", "auto_ai"}
     /\ Len(page.text) < min_text_len

needs_ocr(page) ==
  \/ page.method \in {"ai", "ocr"}
  \/ /\ page.method \in {"auto", "auto_ai"}
     /\ (Len(page.text) < min_text_len \/ has_images(page))

Task(idx, method, text) == [idx |-> idx, method |-> method, text |-> text]
\* the None put on ocr_queue after the last task
None == [idx |-> -1, method |-> "None", text |-> ""]

(* ------------------------------ OCR worker ----------------------------- *)
\* what the engines can answer for one page
OcrOutputs == {"", ShortOcr, GoodOcr}
VlmOutputs == {"", VlmText}

\* process_ocr_page: flag is shutdown_flag as read on entry, ocr_text the
\* answer of ocr_tesseract, vlm_text the answer of ocr_vlm
process_ocr_page(task, flag, ocr_text, vlm_text) ==
  IF flag THEN task.text
  ELSE IF task.method = "ai" THEN vlm_text
  ELSE IF task.method = "ocr" THEN ocr_text
  ELSE IF task.method = "auto_ai"
       THEN (IF vlm_text # "" THEN vlm_text ELSE task.text)
  ELSE IF Len(ocr_text) >= min_ocr_len THEN ocr_text
  ELSE IF vlm_text # "" THEN vlm_text ELSE task.text

(* ----------------------------- cleaning stage -------------------------- *)
\* answers of the judge model and of the rewrite model; "fail" is an
\* exception of the call
JudgeAnswers == {"Y", "N", "fail"}
RewriteAnswers == {"", "TEXT_ERROR", "TRUE", FixedText, "fail"}

\* a judge whose failure counts as "good enough"
should_clean_strict(flag, judge) ==
  IF flag THEN FALSE
  ELSE judge = "Y"

should_clean(flag, judge) ==
  IF flag THEN FALSE
  ELSE IF judge = "fail" THEN TRUE
  ELSE judge = "Y"

text_clean(text, flag, rewrite) ==
  IF text = "" \/ flag THEN text
  ELSE IF rewrite = "fail" THEN text
  ELSE IF rewrite = "" THEN text
  ELSE IF rewrite = "TEXT_ERROR" THEN TEXT_ERROR
  ELSE IF rewrite = "TRUE" THEN TEXT_OK
  ELSE rewrite

\* flag0, flag1, flag2: shutdown_flag as read on entry of smart_clean,
\* of should_clean and of text_clean
smart_clean(text, flag0, flag1, flag2, local, judge, rewrite) ==
  IF text = "" \/ flag0 THEN text
  ELSE IF local THEN text_clean(text, flag2, rewrite)
  ELSE IF should_clean(flag1, judge) THEN text_clean(text, flag2, rewrite)
  ELSE text

(* ======================================================================= *)
(*                     the pipeline: extractors.py                         *)
(* ======================================================================= *)
VARIABLES
  doc,             \* the opened document: page index -> page
  do_clean,        \* cfg.enable_clean
  progress,        \* the progress file of the document
  shutdown_flag,   \* utils.shutdown_flag
  pc,              \* where the main thread is in extract_pdf_method
  page_i,          \* loop variable of the classification loop
  results,         \* the Result Map
  tasks,           \* first_tasks / retry_tasks handed to _run_pipeline
  task_i,          \* position of the producer loop in tasks
  round_num,       \* 0 for the first round, 1..3 for the retry rounds
  retry_pages,     \* the Retry Set
  unsaved,         \* _unsaved[0]
  ocr_queue,       \* queue.Queue(maxsize=max_workers)
  ocr_done_event,
  ocr_all_done,
  executor,        \* the ThreadPoolExecutor of the consumer thread
  consumer,        \* the ocr_consumer thread
  workers,         \* the pool threads running process_ocr_page + callback
  clean_queue,
  cleaners,        \* the _clean_worker threads
  save_keys,       \* keys seen when save_progress starts to iterate results
  ret,             \* what extract_pdf_method returned
  hist,            \* observations of the run, read by the properties only
  calls,           \* the process_ocr_page calls of the OCR worker specification
  model_pos,       \* position of cfg._model_cycle
  disk,            \* whether the progress file can be written
  assign,          \* the method assignment of extract_pdf_method (page_methods)
  cleaning,        \* a cleaning worker running smart_clean step by step
  proc,            \* the process: main() and its exit status
  output,          \* the .md file process_file writes for the document
  quality,         \* one call of clean.is_garbage: its text and its answer
  cursor           \* cfg._model_lock, cfg._tool_cycle and the threads calling them

vars == <<doc, do_clean, progress, shutdown_flag, pc, page_i, results, tasks,
          task_i, round_num, retry_pages, unsaved, ocr_queue, ocr_done_event,
          ocr_all_done, executor, consumer, workers, clean_queue, cleaners,
          save_keys, ret, hist, calls, model_pos, disk, assign, cleaning,
          proc, output, quality, cursor>>

vlm_vars == <<calls, model_pos>>
aux_vars == <<assign, cleaning, proc, output, quality, cursor>>

clean_workers == IF max_workers < 8 THEN max_workers ELSE 8
Workers == 1 .. max_workers
Cleaners == 1 .. clean_workers

NewExecutor == [created |-> FALSE, shut |-> FALSE, work |-> << >>]
IdleWorker == [pc |-> "idle", task |-> None, text |-> "", snapshot |-> EmptyDict]
NoConsumer == [pc |-> "dead", task |-> None]
NoCleaner == [pc |-> "dead", idx |-> -1, text |-> ""]

\* a progress file left by an earlier run: none, one page, every page
InitialProgress ==
  {NoFile} \cup {save_progress([k \in S |-> VlmText]) : S \in {{0}, Pages}}

ZeroCount == [k \in Pages |-> 0]

Callers == 1 .. NumCallers

CursorThreads == 1 .. NumCursorThreads
NoModel == [pool |-> "none", pos |-> 0]
\* config.py lines 32-34 after init_globals: _model_lock free, both cycles
\* at their first entry, no thread inside next_model or next_tool_model;
\* handed lists the models next_model has returned, in the order of return
IdleCursor ==
  [lock |-> 0, has_tool_cycle |-> FALSE, tool_pos |-> 1, handed |-> << >>,
   tool_calls |-> 0,
   threads |-> [t \in CursorThreads |-> [pc |-> "idle", fn |-> "none",
                                          got |-> NoModel]]]
IdleCall == [pc |-> "idle", method |-> "ai", text |-> "", ocr_text |-> "",
             vlm_text |-> "", attempt |-> 0, model |-> 0, sleep_left |-> 0,
             requests |-> 0, result |-> "", last |-> "none"]

\* nothing assigned, cleaned or started yet
IdleAssign == [pc |-> "idle", default_method |-> "auto", overrides |-> << >>,
               i |-> 1, page_methods |-> EmptyDict,
               parsed |-> [ok |-> TRUE, pages |-> {}]]
IdleCleaning == [pc |-> "idle", text |-> "", local |-> FALSE,
                 judge |-> "none", rewrite |-> "none", judge_calls |-> 0,
                 rewrite_calls |-> 0, cleaned |-> "", stored |-> "",
                 retry |-> FALSE, handled |-> 0, idx |-> -1,
                 sorted_keys |-> << >>, prev_text |-> "", next_text |-> ""]
\* is_garbage is not being called
NoQuality == [pc |-> "idle", text |-> << >>, garbage |-> FALSE]
\* no output file of the document yet
NoOutput == [exists |-> FALSE, content |-> ""]
IdleProc == [pc |-> "start", config |-> "ok", targets |-> << >>, i |-> 1,
             raised |-> FALSE, exit |-> -1, ctrl_c |-> 0]

\* extract_pdf_method is entered: the document, made of pages of the given
\* kinds, is open, the progress file of an earlier run (if any) is loaded;
\* disks: whether p.write_text of save_progress succeeds in this run
InitKinds(kinds, disks) ==
  /\ disk \in disks
  /\ calls = [t \in Callers |-> IdleCall]
  /\ model_pos = 1
  /\ doc \in [Pages -> kinds]
  /\ do_clean \in BOOLEAN
  /\ progress \in InitialProgress
  /\ shutdown_flag = FALSE
  /\ pc = "classify"
  /\ page_i = 0
  /\ results = load_progress(progress)
  /\ tasks = << >>
  /\ task_i = 1
  /\ round_num = 0
  /\ retry_pages = {}
  /\ unsaved = 0
  /\ ocr_queue = << >>
  /\ ocr_done_event = FALSE
  /\ ocr_all_done = FALSE
  /\ executor = NewExecutor
  /\ consumer = NoConsumer
  /\ workers = [w \in Workers |-> IdleWorker]
  /\ clean_queue = << >>
  /\ cleaners = [c \in Cleaners |-> NoCleaner]
  /\ save_keys = {}
  /\ ret = "none"
  /\ hist = [loaded |-> progress,
             submits |-> ZeroCount,
             errors |-> ZeroCount,
             late_submit |-> FALSE,
             extracted |-> EmptyDict,
             saved |-> FALSE,
             deleted |-> FALSE,
             err_round |-> [k \in Pages |-> -1],
             dropped_clean |-> {},
             round_set |-> {},
             round_done |-> {},
             handed |-> {},
             cleans |-> ZeroCount,
             resumed |-> FALSE]
  /\ assign = IdleAssign
  /\ cleaning = IdleCleaning
  /\ proc = IdleProc
  /\ output = NoOutput
  /\ quality = NoQuality
  /\ cursor = IdleCursor

InitWith(disks) == InitKinds(PageKinds, disks)

\* the progress file can be written
Init == InitWith({"ok"})

\* the directory of the document may be one that cannot be written
InitDisk == InitWith({"ok", "fail"})

thread_vars == <<ocr_queue, ocr_done_event, ocr_all_done, executor, consumer,
                 workers, clean_queue, cleaners>>
input_vars == <<doc, do_clean, disk>>

(* ------------------------- the interrupt signal ------------------------ *)
\* os._exit(1): the process and every thread of it end where they are;
\* nothing is flushed, joined or saved
Killed ==
  /\ proc' = [proc EXCEPT !.ctrl_c = @ + 1, !.pc = "exited", !.exit = 1]
  /\ pc' = "killed"
  /\ consumer' = NoConsumer
  /\ workers' = [w \in Workers |-> IdleWorker]
  /\ cleaners' = [c \in Cleaners |-> NoCleaner]
  /\ executor' = [executor EXCEPT !.shut = TRUE, !.work = << >>]
  /\ UNCHANGED <<ocr_queue, ocr_done_event, ocr_all_done, clean_queue>>

\* a handler that only sets the flag, however often it is called
SignalNoExit ==
  /\ proc.pc # "exited"
  /\ proc.ctrl_c < 2
  /\ pc \notin {"returned", "raised"}
  /\ shutdown_flag' = TRUE
  /\ proc' = [proc EXCEPT !.ctrl_c = @ + 1]
  /\ UNCHANGED <<pc, ocr_queue, ocr_done_event, ocr_all_done, executor,
                 consumer, workers, clean_queue, cleaners>>
  /\ UNCHANGED <<doc, do_clean, progress, page_i, results, tasks, task_i,
                 round_num, retry_pages, unsaved, save_keys, ret, hist, calls,
                 model_pos, disk, assign, cleaning, output,
                 quality, cursor>>

\* utils._signal_handler (lines 13-20), run by the main thread between two
\* of its steps: the count goes up, the flag is set, and from the second
\* call on the process is ended by os._exit(1)
Signal ==
  /\ proc.pc # "exited"
  /\ pc \notin {"returned", "raised"}
  /\ shutdown_flag' = TRUE
  /\ IF proc.ctrl_c + 1 >= 2
     THEN Killed
     ELSE /\ proc' = [proc EXCEPT !.ctrl_c = @ + 1]
          /\ UNCHANGED <<pc, ocr_queue, ocr_done_event, ocr_all_done,
                         executor, consumer, workers, clean_queue, cleaners>>
  /\ UNCHANGED <<doc, do_clean, progress, page_i, results, tasks, task_i,
                 round_num, retry_pages, unsaved, save_keys, ret, hist, calls,
                 model_pos, disk, assign, cleaning, output,
                 quality, cursor>>

(* ----------------------- extract_pdf_method (main) --------------------- *)
\* one iteration of the loop of lines 229-267
Classify ==
  /\ pc = "classify"
  /\ LET page == doc[page_i]
         next == IF page_i + 1 = Total THEN "enter" ELSE "classify"
     IN  IF shutdown_flag
         THEN /\ pc' = "enter"
              /\ UNCHANGED <<page_i, results, tasks>>
         ELSE /\ pc' = next
              /\ page_i' = page_i + 1
              /\ IF page_i \in DOMAIN results
                 THEN UNCHANGED <<results, tasks>>
                 ELSE IF needs_ocr(page)
                 THEN /\ tasks' = Append(tasks, Task(page_i, page.method, page.text))
                      /\ UNCHANGED results
                 ELSE /\ results' = DictPut(results, page_i, page.text)
                      /\ UNCHANGED tasks
  /\ UNCHANGED <<progress, shutdown_flag, task_i, round_num, retry_pages,
                 unsaved, save_keys, ret, hist>>
  /\ UNCHANGED thread_vars
  /\ UNCHANGED input_vars
  /\ UNCHANGED vlm_vars
  /\ UNCHANGED aux_vars

\* _run_pipeline lines 42-150: the round's structures and threads
StartRound ==
  /\ retry_pages' = {}
  /\ unsaved' = 0
  /\ clean_queue' = << >>
  /\ ocr_all_done' = FALSE
  /\ ocr_queue' = << >>
  /\ ocr_done_event' = FALSE
  /\ executor' = NewExecutor
  /\ consumer' = [pc |-> "init", task |-> None]
  /\ workers' = [w \in Workers |-> IdleWorker]
  /\ cleaners' = [c \in Cleaners |->
                    IF do_clean THEN [pc |-> "get", idx |-> -1, text |-> ""]
                    ELSE [pc |-> "dead", idx |-> -1, text |-> ""]]
  /\ task_i' = 1
  /\ pc' = "put"

\* lines 272-276 and the entry test of _run_pipeline (line 39)
Enter ==
  /\ pc = "enter"
  /\ IF tasks = << >> \/ shutdown_flag
     THEN /\ retry_pages' = {}
          /\ pc' = "after_round"
          /\ UNCHANGED <<unsaved, task_i>>
          /\ UNCHANGED thread_vars
     ELSE StartRound
  /\ UNCHANGED <<progress, shutdown_flag, page_i, results, tasks, round_num,
                 save_keys, ret, hist>>
  /\ UNCHANGED input_vars
  /\ UNCHANGED vlm_vars
  /\ UNCHANGED aux_vars

\* the producer loop, lines 153-161
Put ==
  /\ pc = "put"
  /\ IF shutdown_flag
     THEN /\ pc' = "set_done"
          /\ UNCHANGED <<ocr_queue, task_i>>
     ELSE /\ Len(ocr_queue) < max_workers
          /\ ocr_queue' = Append(ocr_queue, tasks[task_i])
          /\ task_i' = task_i + 1
          /\ pc' = IF task_i = Len(tasks) THEN "set_done" ELSE "put"
  /\ UNCHANGED <<progress, shutdown_flag, page_i, results, tasks, round_num,
                 retry_pages, unsaved, ocr_done_event, ocr_all_done, executor,
                 consumer, workers, clean_queue, cleaners, save_keys, ret, hist>>
  /\ UNCHANGED input_vars
  /\ UNCHANGED vlm_vars
  /\ UNCHANGED aux_vars

\* line 163
SetDone ==
  /\ pc = "set_done"
  /\ ocr_done_event' = TRUE
  /\ pc' = "sentinel"
  /\ UNCHANGED <<progress, shutdown_flag, page_i, results, tasks, task_i,
                 round_num, retry_pages, unsaved, ocr_queue, ocr_all_done,
                 executor, consumer, workers, clean_queue, cleaners, save_keys,
                 ret, hist>>
  /\ UNCHANGED input_vars
  /\ UNCHANGED vlm_vars
  /\ UNCHANGED aux_vars

\* lines 165-171
Sentinel ==
  /\ pc = "sentinel"
  /\ IF Len(ocr_queue) < max_workers
     THEN ocr_queue' = Append(ocr_queue, None)
     ELSE shutdown_flag /\ UNCHANGED ocr_queue
  /\ pc' = "cleanup"
  /\ UNCHANGED <<progress, shutdown_flag, page_i, results, tasks, task_i,
                 round_num, retry_pages, unsaved, ocr_done_event, ocr_all_done,
                 executor, consumer, workers, clean_queue, cleaners, save_keys,
                 ret, hist>>
  /\ UNCHANGED input_vars
  /\ UNCHANGED vlm_vars
  /\ UNCHANGED aux_vars

\* executor.shutdown(wait=False, cancel_futures=True)
CancelFutures(ex) == [ex EXCEPT !.shut = TRUE, !.work = << >>]

\* lines 172-179
Cleanup ==
  /\ pc = "cleanup"
  /\ IF shutdown_flag
     THEN /\ ocr_queue' = << >>
          /\ executor' = IF executor.created THEN CancelFutures(executor)
                         ELSE executor
     ELSE UNCHANGED <<ocr_queue, executor>>
  /\ pc' = "join_consumer"
  /\ UNCHANGED <<progress, shutdown_flag, page_i, results, tasks, task_i,
                 round_num, retry_pages, unsaved, ocr_done_event, ocr_all_done,
                 consumer, workers, clean_queue, cleaners, save_keys, ret, hist>>
  /\ UNCHANGED input_vars
  /\ UNCHANGED vlm_vars
  /\ UNCHANGED aux_vars

\* lines 181-189
JoinConsumer ==
  /\ pc = "join_consumer"
  /\ consumer.pc = "dead" \/ shutdown_flag
  /\ pc' = IF do_clean THEN "set_all_done" ELSE "save"
  /\ UNCHANGED <<progress, shutdown_flag, page_i, results, tasks, task_i,
                 round_num, retry_pages, unsaved, save_keys, ret, hist>>
  /\ UNCHANGED thread_vars
  /\ UNCHANGED input_vars
  /\ UNCHANGED vlm_vars
  /\ UNCHANGED aux_vars

\* line 191
SetAllDone ==
  /\ pc = "set_all_done"
  /\ ocr_all_done' = TRUE
  /\ pc' = "join_clean"
  /\ UNCHANGED <<progress, shutdown_flag, page_i, results, tasks, task_i,
                 round_num, retry_pages, unsaved, ocr_queue, ocr_done_event,
                 executor, consumer, workers, clean_queue, cleaners, save_keys,
                 ret, hist>>
  /\ UNCHANGED input_vars
  /\ UNCHANGED vlm_vars
  /\ UNCHANGED aux_vars

\* lines 193-199
JoinClean ==
  /\ pc = "join_clean"
  /\ (\A c \in Cleaners : cleaners[c].pc = "dead") \/ shutdown_flag
  /\ pc' = "save"
  /\ UNCHANGED <<progress, shutdown_flag, page_i, results, tasks, task_i,
                 round_num, retry_pages, unsaved, save_keys, ret, hist>>
  /\ UNCHANGED thread_vars
  /\ UNCHANGED input_vars
  /\ UNCHANGED vlm_vars
  /\ UNCHANGED aux_vars

\* line 200: save_progress starts to iterate results (no lock held)
SaveBegin ==
  /\ pc = "save"
  /\ save_keys' = DOMAIN results
  /\ pc' = "save_end"
  /\ UNCHANGED <<progress, shutdown_flag, page_i, results, tasks, task_i,
                 round_num, retry_pages, unsaved, ret, hist>>
  /\ UNCHANGED thread_vars
  /\ UNCHANGED input_vars
  /\ UNCHANGED vlm_vars
  /\ UNCHANGED aux_vars

\* line 200, the end of the iteration: a key inserted or removed meanwhile
\* by a thread still running makes the dict iteration raise RuntimeError,
\* and a file that cannot be written makes write_text raise OSError; either
\* leaves _run_pipeline and extract_pdf_method; lines 201-203 otherwise
SaveEnd ==
  /\ pc = "save_end"
  /\ IF DOMAIN results # save_keys \/ disk = "fail"
     THEN /\ pc' = "raised"
          /\ ret' = "raised"
          /\ UNCHANGED <<progress, round_num, hist>>
     ELSE /\ progress' = save_progress(results)
          /\ hist' = [hist EXCEPT !.saved = TRUE,
                                  !.round_set = retry_pages,
                                  !.round_done = {},
                                  !.cleans = ZeroCount]
          /\ pc' = IF round_num = 0 THEN "after_round" ELSE "retry"
          /\ round_num' = IF round_num = 0 THEN 0 ELSE round_num + 1
          /\ UNCHANGED ret
  /\ save_keys' = {}
  /\ UNCHANGED <<shutdown_flag, page_i, results, tasks, task_i, retry_pages,
                 unsaved>>
  /\ UNCHANGED thread_vars
  /\ UNCHANGED input_vars
  /\ UNCHANGED vlm_vars
  /\ UNCHANGED aux_vars

\* lines 278-283
AfterRound ==
  /\ pc = "after_round"
  /\ IF shutdown_flag
     THEN /\ ret' = "empty"
          /\ pc' = "done"
          /\ UNCHANGED round_num
     ELSE /\ round_num' = 1
          /\ pc' = "retry"
          /\ UNCHANGED ret
  /\ UNCHANGED <<progress, shutdown_flag, page_i, results, tasks, task_i,
                 retry_pages, unsaved, save_keys, hist>>
  /\ UNCHANGED thread_vars
  /\ UNCHANGED input_vars
  /\ UNCHANGED vlm_vars
  /\ UNCHANGED aux_vars

\* retry tasks that keep the method and the embedded text of the page
RetryTasksClassified(pages) ==
  LET order == SortedSeq(pages)
  IN  [n \in 1 .. Len(order) |->
         Task(order[n], doc[order[n]].method, doc[order[n]].text)]

\* lines 287-292
RetryTasks(pages) ==
  LET order == SortedSeq(pages)
  IN  [n \in 1 .. Len(order) |-> Task(order[n], "ai", "")]

\* a retry loop without the budget of max_retry_rounds
RetryNoBudget ==
  /\ pc = "retry"
  /\ IF retry_pages = {} \/ shutdown_flag
     THEN /\ pc' = "finish"
          /\ UNCHANGED tasks
     ELSE /\ tasks' = RetryTasks(retry_pages)
          /\ pc' = "retry_enter"
  /\ UNCHANGED <<progress, shutdown_flag, page_i, results, task_i, round_num,
                 retry_pages, unsaved, save_keys, ret, hist>>
  /\ UNCHANGED thread_vars
  /\ UNCHANGED input_vars
  /\ UNCHANGED vlm_vars
  /\ UNCHANGED aux_vars

\* lines 284-292: the head of one retry round
Retry ==
  /\ pc = "retry"
  /\ IF round_num > max_retry_rounds \/ retry_pages = {} \/ shutdown_flag
     THEN /\ pc' = "finish"
          /\ UNCHANGED tasks
     ELSE /\ tasks' = RetryTasks(retry_pages)
          /\ pc' = "retry_enter"
  /\ UNCHANGED <<progress, shutdown_flag, page_i, results, task_i, round_num,
                 retry_pages, unsaved, save_keys, ret, hist>>
  /\ UNCHANGED thread_vars
  /\ UNCHANGED input_vars
  /\ UNCHANGED vlm_vars
  /\ UNCHANGED aux_vars

\* line 293 and the entry test of _run_pipeline (line 39)
RetryEnter ==
  /\ pc = "retry_enter"
  /\ IF shutdown_flag
     THEN /\ retry_pages' = {}
          /\ round_num' = round_num + 1
          /\ pc' = "retry"
          /\ UNCHANGED <<unsaved, task_i>>
          /\ UNCHANGED thread_vars
     ELSE /\ StartRound
          /\ UNCHANGED round_num
  /\ UNCHANGED <<progress, shutdown_flag, page_i, results, tasks, save_keys,
                 ret, hist>>
  /\ UNCHANGED input_vars
  /\ UNCHANGED vlm_vars
  /\ UNCHANGED aux_vars

\* lines 295-300 without the setdefault of the pages still in the Retry Set
FinishNoDefault ==
  /\ pc = "finish"
  /\ pc' = "final"
  /\ UNCHANGED <<progress, shutdown_flag, page_i, results, tasks, task_i,
                 round_num, retry_pages, unsaved, save_keys, ret, hist>>
  /\ UNCHANGED thread_vars
  /\ UNCHANGED input_vars
  /\ UNCHANGED vlm_vars
  /\ UNCHANGED aux_vars

\* lines 295-300
Finish ==
  /\ pc = "finish"
  /\ results' = SetDefaultAll(results, retry_pages, "")
  /\ pc' = "final"
  /\ UNCHANGED <<progress, shutdown_flag, page_i, tasks, task_i, round_num,
                 retry_pages, unsaved, save_keys, ret, hist>>
  /\ UNCHANGED thread_vars
  /\ UNCHANGED input_vars
  /\ UNCHANGED vlm_vars
  /\ UNCHANGED aux_vars

\* lines 302-307
Final ==
  /\ pc = "final"
  /\ IF shutdown_flag
     THEN /\ ret' = "empty"
          /\ UNCHANGED <<progress, hist>>
     ELSE /\ progress' = delete_progress(progress)
          /\ hist' = [hist EXCEPT !.deleted = TRUE]
          /\ ret' = "results"
  /\ pc' = "done"
  /\ UNCHANGED <<shutdown_flag, page_i, results, tasks, task_i, round_num,
                 retry_pages, unsaved, save_keys>>
  /\ UNCHANGED thread_vars
  /\ UNCHANGED input_vars
  /\ UNCHANGED vlm_vars
  /\ UNCHANGED aux_vars

main_vars == <<pc, page_i, tasks, task_i, round_num, save_keys, ret>>

\* the places that mutate results, retry_pages or _unsaved, with the mutex
\* held there: line 265 (classification), lines 107-112 (_on_ocr_done),
\* lines 77-78, 79-80 and 81-82 (_clean_worker), line 298 (setdefault of
\* extract_pdf_method, outside any with block)
MutationSites ==
  {[site |-> "classify", lock |-> "results_lock"],
   [site |-> "callback", lock |-> "results_lock"],
   [site |-> "clean_retry", lock |-> "retry_lock"],
   [site |-> "clean_pop", lock |-> "results_lock"],
   [site |-> "clean_store", lock |-> "results_lock"],
   [site |-> "setdefault", lock |-> "none"]}

(* ----------------------- process_file (lines 330-355) ------------------ *)
\* str.join of line 350
RECURSIVE join(_, _)
join(sep, parts) ==
  IF parts = << >> THEN ""
  ELSE IF Len(parts) = 1 THEN parts[1]
  ELSE parts[1] \o sep \o join(sep, Tail(parts))

\* an assembly that keeps the blank pages
concat_all(res) ==
  LET order == SortedSeq(DOMAIN res)
  IN  join("\n\n---\n\n", [n \in 1 .. Len(order) |-> res[order[n]]])

\* lines 349-350: the texts of the pages in sorted(results) whose text is
\* not blank, joined by the rule; the texts of the model other than the
\* whitespace ones are free of surrounding whitespace
concat(res) ==
  LET strip(text) == IF text \in {" ", "\n", "\t"} THEN "" ELSE text
      order == SortedSeq({i \in DOMAIN res : strip(res[i]) # ""})
  IN  join("\n\n---\n\n", [n \in 1 .. Len(order) |-> res[order[n]]])

\* lines 331-355 for a .pdf without --split: extract_pdf_method has
\* returned; with the flag set nothing is written, otherwise the returned
\* dict is assembled and written to <stem>.md
ProcessFile ==
  /\ pc = "done"
  /\ pc' = "returned"
  /\ output' = IF shutdown_flag THEN output
               ELSE [exists |-> TRUE,
                     content |-> concat(IF ret = "results" THEN results
                                        ELSE EmptyDict)]
  /\ UNCHANGED <<doc, do_clean, progress, shutdown_flag, page_i, results,
                 tasks, task_i, round_num, retry_pages, unsaved, ocr_queue,
                 ocr_done_event, ocr_all_done, executor, consumer, workers,
                 clean_queue, cleaners, save_keys, ret, hist, calls,
                 model_pos, disk, assign, cleaning, proc, quality, cursor>>


(* ----------------------- ocr_consumer (lines 129-147) ------------------ *)
\* line 130-131: the executor is created and published in _executor_ref
ConsumerInit ==
  /\ consumer.pc = "init"
  /\ executor' = [executor EXCEPT !.created = TRUE]
  /\ consumer' = [consumer EXCEPT !.pc = "check"]
  /\ UNCHANGED <<progress, shutdown_flag, results, retry_pages, unsaved,
                 ocr_queue, ocr_done_event, ocr_all_done, workers, clean_queue,
                 cleaners, hist>>
  /\ UNCHANGED main_vars
  /\ UNCHANGED input_vars
  /\ UNCHANGED vlm_vars
  /\ UNCHANGED aux_vars

\* lines 132-135: the loop test and the test of the flag
ConsumerCheck ==
  /\ consumer.pc = "check"
  /\ IF ocr_done_event /\ ocr_queue = << >>
     THEN /\ consumer' = [consumer EXCEPT !.pc = "after_loop"]
          /\ UNCHANGED executor
     ELSE IF shutdown_flag
     THEN /\ executor' = CancelFutures(executor)
          /\ consumer' = [consumer EXCEPT !.pc = "exit"]
     ELSE /\ consumer' = [consumer EXCEPT !.pc = "get"]
          /\ UNCHANGED executor
  /\ UNCHANGED <<progress, shutdown_flag, results, retry_pages, unsaved,
                 ocr_queue, ocr_done_event, ocr_all_done, workers, clean_queue,
                 cleaners, hist>>
  /\ UNCHANGED main_vars
  /\ UNCHANGED input_vars
  /\ UNCHANGED vlm_vars
  /\ UNCHANGED aux_vars

\* lines 137-139 and 142-143: ocr_queue.get(timeout=0.1)
ConsumerGet ==
  /\ consumer.pc = "get"
  /\ IF ocr_queue = << >>
     THEN /\ consumer' = [consumer EXCEPT !.pc = "check"]
          /\ UNCHANGED ocr_queue
     ELSE /\ ocr_queue' = Tail(ocr_queue)
          /\ consumer' = IF Head(ocr_queue) = None
                         THEN [consumer EXCEPT !.pc = "after_loop"]
                         ELSE [pc |-> "submit", task |-> Head(ocr_queue)]
  /\ UNCHANGED <<progress, shutdown_flag, results, retry_pages, unsaved,
                 ocr_done_event, ocr_all_done, executor, workers, clean_queue,
                 cleaners, hist>>
  /\ UNCHANGED main_vars
  /\ UNCHANGED input_vars
  /\ UNCHANGED vlm_vars
  /\ UNCHANGED aux_vars

\* lines 140-141: executor.submit(process_ocr_page, task); a submit to an
\* executor already shut down raises RuntimeError, which ends the thread
ConsumerSubmit ==
  /\ consumer.pc = "submit"
  /\ IF executor.shut
     THEN /\ consumer' = [pc |-> "exit", task |-> None]
          /\ UNCHANGED <<executor, hist>>
     ELSE /\ executor' = [executor EXCEPT !.work = Append(@, consumer.task)]
          /\ consumer' = [pc |-> "check", task |-> None]
          /\ hist' = [hist EXCEPT
                        !.submits[consumer.task.idx] = @ + 1,
                        !.round_done = @ \cup {consumer.task.idx},
                        !.late_submit = @ \/ shutdown_flag]
  /\ UNCHANGED <<progress, shutdown_flag, results, retry_pages, unsaved,
                 ocr_queue, ocr_done_event, ocr_all_done, workers, clean_queue,
                 cleaners>>
  /\ UNCHANGED main_vars
  /\ UNCHANGED input_vars
  /\ UNCHANGED vlm_vars
  /\ UNCHANGED aux_vars

\* lines 144-147
ConsumerAfterLoop ==
  /\ consumer.pc = "after_loop"
  /\ executor' = IF shutdown_flag THEN CancelFutures(executor)
                 ELSE [executor EXCEPT !.shut = TRUE]
  /\ consumer' = [consumer EXCEPT !.pc = "exit"]
  /\ UNCHANGED <<progress, shutdown_flag, results, retry_pages, unsaved,
                 ocr_queue, ocr_done_event, ocr_all_done, workers, clean_queue,
                 cleaners, hist>>
  /\ UNCHANGED main_vars
  /\ UNCHANGED input_vars
  /\ UNCHANGED vlm_vars
  /\ UNCHANGED aux_vars

\* leaving the with block (line 130): shutdown(wait=True) returns when the
\* pool threads have run every work item left and ended
ConsumerExit ==
  /\ consumer.pc = "exit"
  /\ executor.work = << >>
  /\ \A w \in Workers : workers[w].pc = "idle"
  /\ consumer' = [consumer EXCEPT !.pc = "dead"]
  /\ UNCHANGED <<progress, shutdown_flag, results, retry_pages, unsaved,
                 ocr_queue, ocr_done_event, ocr_all_done, executor, workers,
                 clean_queue, cleaners, hist>>
  /\ UNCHANGED main_vars
  /\ UNCHANGED input_vars
  /\ UNCHANGED vlm_vars
  /\ UNCHANGED aux_vars

(* ------------- a pool thread: process_ocr_page and _on_ocr_done -------- *)
\* the thread takes the next work item and enters process_ocr_page
\* (ocr.py line 80 reads the flag)
WorkerTake(w) ==
  /\ workers[w].pc = "idle"
  /\ executor.work # << >>
  /\ executor' = [executor EXCEPT !.work = Tail(@)]
  /\ LET task == Head(executor.work)
     IN  workers' = [workers EXCEPT ![w] =
           IF shutdown_flag
           THEN [pc |-> "callback", task |-> task,
                 text |-> process_ocr_page(task, TRUE, "", ""),
                 snapshot |-> EmptyDict]
           ELSE [pc |-> "running", task |-> task, text |-> "",
                 snapshot |-> EmptyDict]]
  /\ UNCHANGED <<progress, shutdown_flag, results, retry_pages, unsaved,
                 ocr_queue, ocr_done_event, ocr_all_done, consumer,
                 clean_queue, cleaners, hist>>
  /\ UNCHANGED main_vars
  /\ UNCHANGED input_vars
  /\ UNCHANGED vlm_vars
  /\ UNCHANGED aux_vars

\* what process_ocr_page can return for a task once it is past line 80
PageOutcomes(task) ==
  {process_ocr_page(task, FALSE, ocr_text, vlm_text) :
     ocr_text \in OcrOutputs, vlm_text \in VlmOutputs}

\* process_ocr_page returns (ocr.py lines 84-101)
WorkerFinish(w) ==
  /\ workers[w].pc = "running"
  /\ \E text \in PageOutcomes(workers[w].task) :
       workers' = [workers EXCEPT ![w].pc = "callback", ![w].text = text]
  /\ UNCHANGED <<progress, shutdown_flag, results, retry_pages, unsaved,
                 ocr_queue, ocr_done_event, ocr_all_done, executor, consumer,
                 clean_queue, cleaners, hist>>
  /\ UNCHANGED main_vars
  /\ UNCHANGED input_vars
  /\ UNCHANGED vlm_vars
  /\ UNCHANGED aux_vars

\* lines 118-119
Enqueue(w) ==
  IF do_clean /\ workers[w].text # ""
  THEN clean_queue' = Append(clean_queue,
                             [idx |-> workers[w].task.idx, text |-> workers[w].text])
  ELSE UNCHANGED clean_queue

\* a callback that counts the stored results without ever taking a
\* snapshot or resetting the counter
WorkerCallbackNoReset(w) ==
  /\ workers[w].pc = "callback"
  /\ IF workers[w].text = "" /\ ~shutdown_flag
     THEN /\ workers' = [workers EXCEPT ![w] = IdleWorker]
          /\ UNCHANGED <<results, unsaved, clean_queue>>
     ELSE /\ results' = DictPut(results, workers[w].task.idx, workers[w].text)
          /\ unsaved' = unsaved + 1
          /\ workers' = [workers EXCEPT ![w] = IdleWorker]
          /\ Enqueue(w)
  /\ hist' = IF shutdown_flag THEN hist
             ELSE [hist EXCEPT !.extracted =
                     DictPut(@, workers[w].task.idx, workers[w].text)]
  /\ UNCHANGED <<progress, shutdown_flag, retry_pages, ocr_queue,
                 ocr_done_event, ocr_all_done, executor, consumer, cleaners>>
  /\ UNCHANGED main_vars
  /\ UNCHANGED input_vars
  /\ UNCHANGED vlm_vars
  /\ UNCHANGED aux_vars

\* a callback that hands the page to cleaning without storing its text
WorkerCallbackQueueOnly(w) ==
  /\ workers[w].pc = "callback"
  /\ IF workers[w].text = "" /\ ~shutdown_flag
     THEN /\ workers' = [workers EXCEPT ![w] = IdleWorker]
          /\ UNCHANGED <<results, unsaved, clean_queue>>
     ELSE /\ UNCHANGED results
          /\ IF unsaved + 1 >= save_interval
             THEN /\ unsaved' = 0
                  /\ workers' = [workers EXCEPT ![w].pc = "snapshot"]
                  /\ UNCHANGED clean_queue
             ELSE /\ unsaved' = unsaved + 1
                  /\ workers' = [workers EXCEPT ![w] = IdleWorker]
                  /\ Enqueue(w)
  /\ hist' = IF shutdown_flag THEN hist
             ELSE [hist EXCEPT !.extracted =
                     DictPut(@, workers[w].task.idx, workers[w].text)]
  /\ UNCHANGED <<progress, shutdown_flag, retry_pages, ocr_queue,
                 ocr_done_event, ocr_all_done, executor, consumer, cleaners>>
  /\ UNCHANGED main_vars
  /\ UNCHANGED input_vars
  /\ UNCHANGED vlm_vars
  /\ UNCHANGED aux_vars

\* _on_ocr_done lines 98-112 (and 117-119 when no save is due)
WorkerCallback(w) ==
  /\ workers[w].pc = "callback"
  /\ IF workers[w].text = "" /\ ~shutdown_flag
     THEN /\ workers' = [workers EXCEPT ![w] = IdleWorker]
          /\ UNCHANGED <<results, unsaved, clean_queue>>
     ELSE /\ results' = DictPut(results, workers[w].task.idx, workers[w].text)
          /\ IF unsaved + 1 >= save_interval
             THEN /\ unsaved' = 0
                  /\ workers' = [workers EXCEPT ![w].pc = "snapshot"]
                  /\ UNCHANGED clean_queue
             ELSE /\ unsaved' = unsaved + 1
                  /\ workers' = [workers EXCEPT ![w] = IdleWorker]
                  /\ Enqueue(w)
  /\ hist' = IF shutdown_flag THEN hist
             ELSE [hist EXCEPT !.extracted =
                     DictPut(@, workers[w].task.idx, workers[w].text)]
  /\ UNCHANGED <<progress, shutdown_flag, retry_pages, ocr_queue,
                 ocr_done_event, ocr_all_done, executor, consumer, cleaners>>
  /\ UNCHANGED main_vars
  /\ UNCHANGED input_vars
  /\ UNCHANGED vlm_vars
  /\ UNCHANGED aux_vars

\* lines 113-115
WorkerSnapshot(w) ==
  /\ workers[w].pc = "snapshot"
  /\ workers' = [workers EXCEPT ![w].pc = "write", ![w].snapshot = results]
  /\ UNCHANGED <<progress, shutdown_flag, results, retry_pages, unsaved,
                 ocr_queue, ocr_done_event, ocr_all_done, executor, consumer,
                 clean_queue, cleaners, hist>>
  /\ UNCHANGED main_vars
  /\ UNCHANGED input_vars
  /\ UNCHANGED vlm_vars
  /\ UNCHANGED aux_vars

\* lines 116-119; an exception of save_progress is caught at line 120 and
\* ends the callback before line 118
WorkerWrite(w) ==
  /\ workers[w].pc = "write"
  /\ workers' = [workers EXCEPT ![w] = IdleWorker]
  /\ IF disk = "fail"
     THEN /\ hist' = IF do_clean /\ workers[w].text # ""
                     THEN [hist EXCEPT !.dropped_clean =
                             @ \cup {workers[w].task.idx}]
                     ELSE hist
          /\ UNCHANGED <<progress, clean_queue>>
     ELSE /\ progress' = save_progress(workers[w].snapshot)
          /\ Enqueue(w)
          /\ UNCHANGED hist
  /\ UNCHANGED <<shutdown_flag, results, retry_pages, unsaved, ocr_queue,
                 ocr_done_event, ocr_all_done, executor, consumer, cleaners>>
  /\ UNCHANGED main_vars
  /\ UNCHANGED input_vars
  /\ UNCHANGED vlm_vars
  /\ UNCHANGED aux_vars

(* ------------------------ _clean_worker (lines 50-85) ------------------ *)
\* lines 52-62, up to the flag test on entry of smart_clean (clean.py 246)
CleanerGet(c) ==
  /\ cleaners[c].pc = "get"
  /\ IF clean_queue = << >>
     THEN /\ ocr_all_done
          /\ cleaners' = [cleaners EXCEPT ![c] = NoCleaner]
          /\ UNCHANGED <<clean_queue, hist>>
     ELSE /\ clean_queue' = Tail(clean_queue)
          /\ cleaners' = [cleaners EXCEPT ![c] =
               IF shutdown_flag THEN @
               ELSE [pc |-> "clean", idx |-> Head(clean_queue).idx,
                     text |-> Head(clean_queue).text]]
          /\ hist' = IF shutdown_flag THEN hist
                     ELSE [hist EXCEPT !.handed =
                             @ \cup {Head(clean_queue).idx}]
  /\ UNCHANGED <<progress, shutdown_flag, results, retry_pages, unsaved,
                 ocr_queue, ocr_done_event, ocr_all_done, executor, consumer,
                 workers>>
  /\ UNCHANGED main_vars
  /\ UNCHANGED input_vars
  /\ UNCHANGED vlm_vars
  /\ UNCHANGED aux_vars

\* the flag as a call inside smart_clean can read it
FlagReads == IF shutdown_flag THEN BOOLEAN ELSE {FALSE}

\* what smart_clean can return for a text when it was entered with the flag
\* clear: every answer of the local rules, of the judge and of the rewrite
CleanOutcomes(text) ==
  {smart_clean(text, FALSE, flag1, flag2, local, judge, rewrite) :
     flag1 \in FlagReads, flag2 \in FlagReads, local \in BOOLEAN,
     judge \in JudgeAnswers, rewrite \in RewriteAnswers}

IdleCleaner == [pc |-> "get", idx |-> -1, text |-> ""]

\* lines 73-77 and 80-85: smart_clean returns
CleanerClean(c) ==
  /\ cleaners[c].pc = "clean"
  /\ \E cleaned \in CleanOutcomes(cleaners[c].text) :
       LET idx == cleaners[c].idx
       IN  IF cleaned = TEXT_ERROR
           THEN /\ retry_pages' = retry_pages \cup {idx}
                /\ cleaners' = [cleaners EXCEPT ![c].pc = "pop"]
                /\ hist' = [hist EXCEPT !.errors[idx] = @ + 1,
                                        !.err_round[idx] = round_num,
                                        !.cleans[idx] = @ + 1]
                /\ UNCHANGED results
           ELSE IF cleaned # TEXT_OK
           THEN /\ results' = DictPut(results, idx, cleaned)
                /\ cleaners' = [cleaners EXCEPT ![c] = IdleCleaner]
                /\ hist' = [hist EXCEPT !.cleans[idx] = @ + 1]
                /\ UNCHANGED retry_pages
           ELSE /\ cleaners' = [cleaners EXCEPT ![c] = IdleCleaner]
                /\ hist' = [hist EXCEPT !.cleans[idx] = @ + 1]
                /\ UNCHANGED <<results, retry_pages>>
  /\ UNCHANGED <<progress, shutdown_flag, unsaved, ocr_queue, ocr_done_event,
                 ocr_all_done, executor, consumer, workers, clean_queue>>
  /\ UNCHANGED main_vars
  /\ UNCHANGED input_vars
  /\ UNCHANGED vlm_vars
  /\ UNCHANGED aux_vars

\* lines 78-79 without the pop
CleanerPopNothing(c) ==
  /\ cleaners[c].pc = "pop"
  /\ cleaners' = [cleaners EXCEPT ![c] = IdleCleaner]
  /\ UNCHANGED <<progress, shutdown_flag, results, retry_pages, unsaved,
                 ocr_queue, ocr_done_event, ocr_all_done, executor, consumer,
                 workers, clean_queue, hist>>
  /\ UNCHANGED main_vars
  /\ UNCHANGED input_vars
  /\ UNCHANGED vlm_vars
  /\ UNCHANGED aux_vars

\* lines 78-79
CleanerPop(c) ==
  /\ cleaners[c].pc = "pop"
  /\ results' = DictPop(results, cleaners[c].idx)
  /\ cleaners' = [cleaners EXCEPT ![c] = IdleCleaner]
  /\ UNCHANGED <<progress, shutdown_flag, retry_pages, unsaved, ocr_queue,
                 ocr_done_event, ocr_all_done, executor, consumer, workers,
                 clean_queue, hist>>
  /\ UNCHANGED main_vars
  /\ UNCHANGED input_vars
  /\ UNCHANGED vlm_vars
  /\ UNCHANGED aux_vars

(* ------------------------------ the system ----------------------------- *)
Worker == \E w \in Workers :
  \/ WorkerTake(w)
  \/ WorkerFinish(w)
  \/ WorkerCallback(w)
  \/ WorkerSnapshot(w)
  \/ WorkerWrite(w)

Cleaner == \E c \in Cleaners :
  \/ CleanerGet(c)
  \/ CleanerClean(c)
  \/ CleanerPop(c)

Next ==
  \/ Signal
  \/ Classify
  \/ Enter
  \/ Put
  \/ SetDone
  \/ Sentinel
  \/ Cleanup
  \/ JoinConsumer
  \/ SetAllDone
  \/ JoinClean
  \/ SaveBegin
  \/ SaveEnd
  \/ AfterRound
  \/ Retry
  \/ RetryEnter
  \/ Finish
  \/ Final
  \/ ProcessFile
  \/ ConsumerInit
  \/ ConsumerCheck
  \/ ConsumerGet
  \/ ConsumerSubmit
  \/ ConsumerAfterLoop
  \/ ConsumerExit
  \/ Worker
  \/ Cleaner

Spec == Init /\ [][Next]_vars

\* uninterrupted runs: the specification without the interrupt
NextRun ==
  \/ Classify
  \/ Enter
  \/ Put
  \/ SetDone
  \/ Sentinel
  \/ Cleanup
  \/ JoinConsumer
  \/ SetAllDone
  \/ JoinClean
  \/ SaveBegin
  \/ SaveEnd
  \/ AfterRound
  \/ Retry
  \/ RetryEnter
  \/ Finish
  \/ Final
  \/ ProcessFile
  \/ ConsumerInit
  \/ ConsumerCheck
  \/ ConsumerGet
  \/ ConsumerSubmit
  \/ ConsumerAfterLoop
  \/ ConsumerExit
  \/ Worker
  \/ Cleaner

RunSpec == Init /\ [][NextRun]_vars

\* uninterrupted runs in which every thread is scheduled: the main thread,
\* the consumer thread, the pool and the cleaning threads each take a step
\* when they can go on (every external call returns)
FairRunSpec ==
  /\ Init
  /\ [][NextRun]_vars
  /\ WF_vars(Classify \/ Enter \/ Put \/ SetDone \/ Sentinel \/ Cleanup
               \/ JoinConsumer \/ SetAllDone \/ JoinClean \/ SaveBegin
               \/ SaveEnd \/ AfterRound \/ Retry \/ RetryEnter \/ Finish
               \/ Final \/ ProcessFile)
  /\ WF_vars(ConsumerInit \/ ConsumerCheck \/ ConsumerGet \/ ConsumerSubmit
               \/ ConsumerAfterLoop \/ ConsumerExit)
  /\ WF_vars(Worker)
  /\ WF_vars(Cleaner)

\* uninterrupted runs on a disk that may refuse the writes
DiskSpec == InitDisk /\ [][NextRun]_vars

\* uninterrupted runs on documents of born-digital and scanned pages with
\* the default method auto
InitScan == InitKinds({TextPage, ScanPage}, {"ok"})
ScanSpec == InitScan /\ [][NextRun]_vars

(* ======================================================================= *)
(*          the OCR worker: ocr.py process_ocr_page and ocr_vlm            *)
(* ======================================================================= *)
Methods == {"ai", "ocr", "auto", "auto_ai"}
EmbeddedTexts == {"", ShortText}
\* what one request to the VLM can end in: usable text, text that
\* is_garbage rejects, an exception of the transient class, another exception
VlmAnswers == {"text", "garbage", "transient", "fatal"}

pipeline_vars == <<doc, do_clean, disk, progress, pc, page_i, results, tasks,
                   task_i, round_num, retry_pages, unsaved, ocr_queue,
                   ocr_done_event, ocr_all_done, executor, consumer, workers,
                   clean_queue, cleaners, save_keys, ret, hist>>

\* the pipeline is not running: the calls are looked at on their own
InitOcr ==
  /\ calls = [t \in Callers |-> IdleCall]
  /\ model_pos = 1
  /\ doc = [k \in Pages |-> TextPage]
  /\ do_clean = FALSE
  /\ progress = NoFile
  /\ shutdown_flag = FALSE
  /\ pc = "classify"
  /\ page_i = 0
  /\ results = EmptyDict
  /\ tasks = << >>
  /\ task_i = 1
  /\ round_num = 0
  /\ retry_pages = {}
  /\ unsaved = 0
  /\ ocr_queue = << >>
  /\ ocr_done_event = FALSE
  /\ ocr_all_done = FALSE
  /\ executor = NewExecutor
  /\ consumer = NoConsumer
  /\ workers = [w \in Workers |-> IdleWorker]
  /\ clean_queue = << >>
  /\ cleaners = [c \in Cleaners |-> NoCleaner]
  /\ save_keys = {}
  /\ ret = "none"
  /\ hist = [loaded |-> NoFile,
             submits |-> ZeroCount,
             errors |-> ZeroCount,
             late_submit |-> FALSE,
             extracted |-> EmptyDict,
             saved |-> FALSE,
             deleted |-> FALSE,
             err_round |-> [k \in Pages |-> -1],
             dropped_clean |-> {},
             round_set |-> {},
             round_done |-> {},
             handed |-> {},
             cleans |-> ZeroCount,
             resumed |-> FALSE]
  /\ disk = "ok"
  /\ assign = IdleAssign
  /\ cleaning = IdleCleaning
  /\ proc = IdleProc
  /\ output = NoOutput
  /\ quality = NoQuality
  /\ cursor = IdleCursor

\* config.py AppConfig.next_model: itertools.cycle over cfg.models
next_model(pos) == pos
advance(pos) == (pos % NumModels) + 1

CallTask(t) == Task(t, calls[t].method, calls[t].text)

\* process_ocr_page lines 79-83: entry, the flag is read
CallBegin(t) ==
  /\ calls[t].pc = "idle"
  /\ \E method \in Methods, text \in EmbeddedTexts :
       calls' = [calls EXCEPT ![t] =
         IF shutdown_flag
         THEN [@ EXCEPT !.pc = "done", !.method = method, !.text = text,
                        !.result = process_ocr_page(Task(t, method, text),
                                                    TRUE, "", "")]
         ELSE [@ EXCEPT !.pc = IF method \in {"ai", "auto_ai"} THEN "vlm"
                               ELSE "tesseract",
                        !.method = method, !.text = text]]
  /\ UNCHANGED <<shutdown_flag, model_pos>>
  /\ UNCHANGED pipeline_vars
  /\ UNCHANGED aux_vars

\* ocr_tesseract returns (lines 86-87 and 96-99)
CallTesseract(t) ==
  /\ calls[t].pc = "tesseract"
  /\ \E ocr_text \in OcrOutputs :
       calls' = [calls EXCEPT ![t] =
         IF calls[t].method = "ocr" \/ Len(ocr_text) >= min_ocr_len
         THEN [@ EXCEPT !.pc = "done", !.ocr_text = ocr_text,
                        !.result = process_ocr_page(CallTask(t), FALSE,
                                                    ocr_text, "")]
         ELSE [@ EXCEPT !.pc = "vlm", !.ocr_text = ocr_text]]
  /\ UNCHANGED <<shutdown_flag, model_pos>>
  /\ UNCHANGED pipeline_vars
  /\ UNCHANGED aux_vars

\* ocr_vlm returns v to process_ocr_page, which returns (lines 85, 89-93,
\* 100-101)
VlmReturn(c, v) ==
  [c EXCEPT !.pc = "done", !.vlm_text = v, !.sleep_left = 0,
            !.result = process_ocr_page(Task(0, c.method, c.text), FALSE,
                                        c.ocr_text, v)]

\* ocr_vlm lines 29-31
VlmEnter(t) ==
  /\ calls[t].pc = "vlm"
  /\ IF shutdown_flag
     THEN /\ calls' = [calls EXCEPT ![t] = VlmReturn(@, "")]
          /\ UNCHANGED model_pos
     ELSE /\ cursor.lock = 0
          /\ calls' = [calls EXCEPT ![t].pc = "attempt", ![t].attempt = 0,
                                    ![t].model = next_model(model_pos)]
          /\ model_pos' = advance(model_pos)
  /\ UNCHANGED shutdown_flag
  /\ UNCHANGED pipeline_vars
  /\ UNCHANGED aux_vars

\* lines 35-37: the head of one attempt
VlmAttempt(t) ==
  /\ calls[t].pc = "attempt"
  /\ calls' = [calls EXCEPT ![t] =
       IF shutdown_flag THEN VlmReturn(@, "") ELSE [@ EXCEPT !.pc = "request"]]
  /\ UNCHANGED <<shutdown_flag, model_pos>>
  /\ UNCHANGED pipeline_vars
  /\ UNCHANGED aux_vars

\* lines 55 and 63: attempt < 2 and not shutdown_flag.is_set()
may_retry_always(attempt, flag) == ~flag
may_retry(attempt, flag) == attempt < vlm_attempts - 1 /\ ~flag

\* lines 64-66: the exception's text names 429, rate, connection, timeout
\* or a 5xx status
is_transient_any(answer) == answer \in {"transient", "fatal"}
is_transient(answer) == answer = "transient"

\* lines 39-72: the request is answered and the answer handled; an
\* exception that is raised again leaves the loop for line 73
VlmRequest(t) ==
  /\ calls[t].pc = "request"
  /\ \E answer \in VlmAnswers :
       LET c == [calls[t] EXCEPT !.requests = @ + 1, !.last = answer]
           again == may_retry(c.attempt, shutdown_flag)
       IN  IF answer = "text"
           THEN /\ calls' = [calls EXCEPT ![t] = VlmReturn(c, VlmText)]
                /\ UNCHANGED model_pos
           ELSE IF answer = "garbage"
           THEN IF again
                THEN /\ cursor.lock = 0
                     /\ calls' = [calls EXCEPT ![t] =
                            [c EXCEPT !.pc = "attempt", !.attempt = @ + 1,
                                      !.model = next_model(model_pos)]]
                     /\ model_pos' = advance(model_pos)
                ELSE /\ calls' = [calls EXCEPT ![t] = VlmReturn(c, "")]
                     /\ UNCHANGED model_pos
           ELSE IF again /\ is_transient(answer)
           THEN /\ calls' = [calls EXCEPT ![t] =
                       [c EXCEPT !.pc = "sleep",
                                 !.sleep_left = (c.attempt + 1) * backoff_step]]
                /\ UNCHANGED model_pos
           ELSE /\ calls' = [calls EXCEPT ![t] = [c EXCEPT !.pc = "except"]]
                /\ UNCHANGED model_pos
  /\ UNCHANGED shutdown_flag
  /\ UNCHANGED pipeline_vars
  /\ UNCHANGED aux_vars

\* lines 73-75: the outer handler logs the exception and returns ""
VlmExcept(t) ==
  /\ calls[t].pc = "except"
  /\ calls' = [calls EXCEPT ![t] = VlmReturn(@, "")]
  /\ UNCHANGED <<shutdown_flag, model_pos>>
  /\ UNCHANGED pipeline_vars
  /\ UNCHANGED aux_vars

\* lines 69-71: time.sleep(wait), backoff_step seconds of it pass; when the
\* wait is over the next model is taken and the next attempt starts
VlmSleep(t) ==
  /\ calls[t].pc = "sleep"
  /\ IF calls[t].sleep_left > backoff_step
     THEN /\ calls' = [calls EXCEPT ![t].sleep_left = @ - backoff_step]
          /\ UNCHANGED model_pos
     ELSE /\ cursor.lock = 0
          /\ calls' = [calls EXCEPT ![t].pc = "attempt", ![t].sleep_left = 0,
                                    ![t].attempt = @ + 1,
                                    ![t].model = next_model(model_pos)]
          /\ model_pos' = advance(model_pos)
  /\ UNCHANGED shutdown_flag
  /\ UNCHANGED pipeline_vars
  /\ UNCHANGED aux_vars

Call == \E t \in Callers :
  \/ CallBegin(t)
  \/ CallTesseract(t)
  \/ VlmEnter(t)
  \/ VlmAttempt(t)
  \/ VlmRequest(t)
  \/ VlmExcept(t)
  \/ VlmSleep(t)

NextOcr ==
  \/ Signal
  \/ Call

OcrSpec == InitOcr /\ [][NextOcr]_vars

(* ======================================================================= *)
(*   the method assignment: extract_pdf_method lines 206-219, parse_pages  *)
(* ======================================================================= *)
\* the pipeline is not running and no process_ocr_page call is made; res
\* is the Result Map
StoppedWith(res) ==
  /\ calls = [t \in Callers |-> IdleCall]
  /\ model_pos = 1
  /\ doc = [k \in Pages |-> TextPage]
  /\ do_clean = FALSE
  /\ disk = "ok"
  /\ progress = NoFile
  /\ shutdown_flag = FALSE
  /\ pc = "classify"
  /\ page_i = 0
  /\ results = res
  /\ tasks = << >>
  /\ task_i = 1
  /\ round_num = 0
  /\ retry_pages = {}
  /\ unsaved = 0
  /\ ocr_queue = << >>
  /\ ocr_done_event = FALSE
  /\ ocr_all_done = FALSE
  /\ executor = NewExecutor
  /\ consumer = NoConsumer
  /\ workers = [w \in Workers |-> IdleWorker]
  /\ clean_queue = << >>
  /\ cleaners = [c \in Cleaners |-> NoCleaner]
  /\ save_keys = {}
  /\ ret = "none"
  /\ hist = [loaded |-> NoFile,
             submits |-> ZeroCount,
             errors |-> ZeroCount,
             late_submit |-> FALSE,
             extracted |-> EmptyDict,
             saved |-> FALSE,
             deleted |-> FALSE,
             err_round |-> [k \in Pages |-> -1],
             dropped_clean |-> {},
             round_set |-> {},
             round_done |-> {},
             handed |-> {},
             cleans |-> ZeroCount,
             resumed |-> FALSE]

Stopped == StoppedWith(EmptyDict)

\* parts of one "pages" string, and overrides of one file entry
MaxParts == 2
MaxOverrides == 2

\* the page numbers (1-based) a configuration names, as written
PageNumbers == 1 .. Total
Tokens == {ToString(n) : n \in PageNumbers}

\* one comma-separated part: "9" is [a |-> "9", dash |-> FALSE, b |-> ""],
\* "1-5" is [a |-> "1", dash |-> TRUE, b |-> "5"], "20-" is
\* [a |-> "20", dash |-> TRUE, b |-> ""] (what part.split("-", 1) gives)
SinglePart(a) == [a |-> a, dash |-> FALSE, b |-> ""]
ClosedPart(a, b) == [a |-> a, dash |-> TRUE, b |-> b]
OpenPart(a) == [a |-> a, dash |-> TRUE, b |-> ""]
Parts ==
  {SinglePart(a) : a \in Tokens}
    \cup {ClosedPart(a, b) : a \in Tokens, b \in Tokens}
    \cup {OpenPart(a) : a \in Tokens}

\* a "pages" string: "all", or parts separated by commas
AllPages == [all |-> TRUE, parts |-> << >>]
PageSpecs ==
  {AllPages} \cup
  {[all |-> FALSE, parts |-> ps] :
     ps \in UNION {[1 .. n -> Parts] : n \in 1 .. MaxParts}}

\* int(s) of Python: defined for a decimal numeral, ValueError for ""
int_ok(tok) == \E n \in 0 .. (Total + 1) : ToString(n) = tok
int(tok) == CHOOSE n \in 0 .. (Total + 1) : ToString(n) = tok

\* lines 32-36: the indices one part adds, when its int() calls succeed
part_ok(part) == int_ok(part.a) /\ (part.dash => int_ok(part.b))
part_pages(part) ==
  IF part.dash THEN (int(part.a) - 1) .. (int(part.b) - 1)
  ELSE {int(part.a) - 1}

\* utils.parse_pages; ok is FALSE when the call raises ValueError
parse_pages(spec, total) ==
  IF spec.all THEN [ok |-> TRUE, pages |-> 0 .. (total - 1)]
  ELSE IF \E i \in DOMAIN spec.parts : ~part_ok(spec.parts[i])
  THEN [ok |-> FALSE, pages |-> {}]
  ELSE [ok |-> TRUE,
        pages |-> UNION {part_pages(spec.parts[i]) : i \in DOMAIN spec.parts}]

OverrideMethods == {"ocr", "ai"}
DefaultMethods == {"auto", "text"}
Overrides == [pages : PageSpecs, method : OverrideMethods]
OverrideLists == UNION {[1 .. n -> Overrides] : n \in 0 .. MaxOverrides}

\* a file entry of the configuration is read (lines 207-209)
InitMethod ==
  /\ Stopped
  /\ assign \in {[IdleAssign EXCEPT !.default_method = d, !.overrides = ovs] :
                   d \in DefaultMethods, ovs \in OverrideLists}
  /\ cleaning = IdleCleaning
  /\ proc = IdleProc
  /\ output = NoOutput
  /\ quality = NoQuality
  /\ cursor = IdleCursor

\* line 214
AssignDefault ==
  /\ assign.pc = "idle"
  /\ assign' = [assign EXCEPT
                  !.pc = "loop",
                  !.page_methods = [k \in Pages |-> assign.default_method]]
  /\ UNCHANGED pipeline_vars
  /\ UNCHANGED <<shutdown_flag, calls, model_pos, cleaning, proc, output,
                 quality, cursor>>

\* lines 215-219: one override; a ValueError of parse_pages leaves
\* extract_pdf_method
AssignOverride ==
  /\ assign.pc = "loop"
  /\ assign.i <= Len(assign.overrides)
  /\ LET ov == assign.overrides[assign.i]
         parsed == parse_pages(ov.pages, Total)
     IN  assign' = [assign EXCEPT
           !.i = @ + 1,
           !.parsed = parsed,
           !.pc = IF parsed.ok THEN "loop" ELSE "raised",
           !.page_methods =
              IF parsed.ok
              THEN [k \in (DOMAIN @) \cup parsed.pages |->
                      IF k \in parsed.pages THEN ov.method ELSE @[k]]
              ELSE @]
  /\ UNCHANGED pipeline_vars
  /\ UNCHANGED <<shutdown_flag, calls, model_pos, cleaning, proc, output,
                 quality, cursor>>

\* the loop of line 215 is over
AssignDone ==
  /\ assign.pc = "loop"
  /\ assign.i > Len(assign.overrides)
  /\ assign' = [assign EXCEPT !.pc = "done"]
  /\ UNCHANGED pipeline_vars
  /\ UNCHANGED <<shutdown_flag, calls, model_pos, cleaning, proc, output,
                 quality, cursor>>

NextMethod ==
  \/ AssignDefault
  \/ AssignOverride
  \/ AssignDone

MethodSpec == InitMethod /\ [][NextMethod]_vars

(* ======================================================================= *)
(*        the page classifier: extract_pdf_method lines 221-267            *)
(* ======================================================================= *)
ClassifyMethods == {"auto", "auto_ai", "ai", "ocr", "text"}
ClassifyTexts == {Text10, Text49, Text50, Text500}
ClassifyCovers == {cover_limit, cover_limit + 1}
ClassifyKinds == [method : ClassifyMethods, text : ClassifyTexts,
                  cover : ClassifyCovers]

\* lines 211-228: a document of any pages is opened, the progress file of
\* an earlier run is loaded
InitClassify ==
  /\ doc \in [Pages -> ClassifyKinds]
  /\ progress \in InitialProgress
  /\ results = load_progress(progress)
  /\ hist = [loaded |-> progress,
             submits |-> ZeroCount,
             errors |-> ZeroCount,
             late_submit |-> FALSE,
             extracted |-> EmptyDict,
             saved |-> FALSE,
             deleted |-> FALSE,
             err_round |-> [k \in Pages |-> -1],
             dropped_clean |-> {},
             round_set |-> {},
             round_done |-> {},
             handed |-> {},
             cleans |-> ZeroCount,
             resumed |-> FALSE]
  /\ calls = [t \in Callers |-> IdleCall]
  /\ model_pos = 1
  /\ do_clean = FALSE
  /\ disk = "ok"
  /\ shutdown_flag = FALSE
  /\ pc = "classify"
  /\ page_i = 0
  /\ tasks = << >>
  /\ task_i = 1
  /\ round_num = 0
  /\ retry_pages = {}
  /\ unsaved = 0
  /\ ocr_queue = << >>
  /\ ocr_done_event = FALSE
  /\ ocr_all_done = FALSE
  /\ executor = NewExecutor
  /\ consumer = NoConsumer
  /\ workers = [w \in Workers |-> IdleWorker]
  /\ clean_queue = << >>
  /\ cleaners = [c \in Cleaners |-> NoCleaner]
  /\ save_keys = {}
  /\ ret = "none"
  /\ assign = IdleAssign
  /\ cleaning = IdleCleaning
  /\ proc = IdleProc
  /\ output = NoOutput
  /\ quality = NoQuality
  /\ cursor = IdleCursor

NextClassify ==
  \/ Signal
  \/ Classify

ClassifySpec == InitClassify /\ [][NextClassify]_vars

(* ======================================================================= *)
(*   one cleaning worker, smart_clean step by step: clean.py 243-263,      *)
(*   should_clean, text_clean, and _clean_worker lines 51-85               *)
(* ======================================================================= *)
\* items the worker takes from clean_queue
MaxCleanItems == 2

\* clean_queue holds non-empty texts only (extractors.py line 118): the
\* text of an ordinary page, and pages whose whole text is the word the
\* code uses as TEXT_ERROR or as TEXT_OK (is_garbage accepts "text_error",
\* and ocr_tesseract and the embedded text are not checked at all)
CleanTexts == {VlmText, TEXT_ERROR, TEXT_OK}

InitClean ==
  /\ Stopped
  /\ assign = IdleAssign
  /\ cleaning = IdleCleaning
  /\ proc = IdleProc
  /\ output = NoOutput
  /\ quality = NoQuality
  /\ cursor = IdleCursor

\* clean.py lines 255-260: the local rules decide whether the judge is asked
after_local_judge(local) == "judge"
after_local(local) == IF local THEN "rewrite" ELSE "judge"

\* _clean_worker lines 53-62: an item is taken; it is skipped when the flag
\* is set. needs_clean_local(text) is a function of the text, taken here as
\* given with it
CleanTake ==
  /\ cleaning.pc = "idle"
  /\ cleaning.handled < MaxCleanItems
  /\ \E text \in CleanTexts, local \in BOOLEAN :
       cleaning' =
         IF shutdown_flag
         THEN [cleaning EXCEPT !.handled = @ + 1]
         ELSE [IdleCleaning EXCEPT !.pc = "smart_clean", !.text = text,
                                   !.local = local,
                                   !.handled = cleaning.handled]
  /\ UNCHANGED pipeline_vars
  /\ UNCHANGED <<shutdown_flag, calls, model_pos, assign, proc, output,
                 quality, cursor>>

\* smart_clean lines 246-252 (cfg.clean_model is set when cleaning is on)
CleanEnter ==
  /\ cleaning.pc = "smart_clean"
  /\ cleaning' = IF shutdown_flag
                 THEN [cleaning EXCEPT !.pc = "handle", !.cleaned = cleaning.text]
                 ELSE [cleaning EXCEPT !.pc = "local"]
  /\ UNCHANGED pipeline_vars
  /\ UNCHANGED <<shutdown_flag, calls, model_pos, assign, proc, output,
                 quality, cursor>>

\* smart_clean lines 255-260: needs_clean_local
CleanLocal ==
  /\ cleaning.pc = "local"
  /\ cleaning' = [cleaning EXCEPT !.pc = after_local(cleaning.local)]
  /\ UNCHANGED pipeline_vars
  /\ UNCHANGED <<shutdown_flag, calls, model_pos, assign, proc, output,
                 quality, cursor>>

\* should_clean: no request when the flag is set (line 110); otherwise the
\* request is made and answered or fails; smart_clean lines 260-263
CleanJudge ==
  /\ cleaning.pc = "judge"
  /\ IF shutdown_flag
     THEN cleaning' = [cleaning EXCEPT !.pc = "handle",
                                       !.cleaned = cleaning.text]
     ELSE \E answer \in JudgeAnswers :
            cleaning' =
              IF should_clean(FALSE, answer)
              THEN [cleaning EXCEPT !.pc = "rewrite", !.judge = answer,
                                    !.judge_calls = @ + 1]
              ELSE [cleaning EXCEPT !.pc = "handle", !.judge = answer,
                                    !.judge_calls = @ + 1,
                                    !.cleaned = cleaning.text]
  /\ UNCHANGED pipeline_vars
  /\ UNCHANGED <<shutdown_flag, calls, model_pos, assign, proc, output,
                 quality, cursor>>

\* text_clean: no request when the flag is set (line 167); otherwise the
\* request is made and answered or fails
CleanRewrite ==
  /\ cleaning.pc = "rewrite"
  /\ IF shutdown_flag
     THEN cleaning' = [cleaning EXCEPT
                         !.pc = "handle",
                         !.cleaned = text_clean(cleaning.text, TRUE, "")]
     ELSE \E answer \in RewriteAnswers :
            cleaning' = [cleaning EXCEPT
                           !.pc = "handle", !.rewrite = answer,
                           !.rewrite_calls = @ + 1,
                           !.cleaned = text_clean(cleaning.text, FALSE, answer)]
  /\ UNCHANGED pipeline_vars
  /\ UNCHANGED <<shutdown_flag, calls, model_pos, assign, proc, output,
                 quality, cursor>>

\* _clean_worker lines 74-85: the page goes to the Retry Set, or its text
\* is replaced, or it is left as it is; the loop goes on
CleanHandle ==
  /\ cleaning.pc = "handle"
  /\ cleaning' = [cleaning EXCEPT
                    !.pc = "idle",
                    !.handled = @ + 1,
                    !.retry = (cleaning.cleaned = TEXT_ERROR),
                    !.stored = IF cleaning.cleaned = TEXT_ERROR THEN ""
                               ELSE IF cleaning.cleaned # TEXT_OK
                               THEN cleaning.cleaned
                               ELSE cleaning.text]
  /\ UNCHANGED pipeline_vars
  /\ UNCHANGED <<shutdown_flag, calls, model_pos, assign, proc, output,
                 quality, cursor>>

NextClean ==
  \/ Signal
  \/ CleanTake
  \/ CleanEnter
  \/ CleanLocal
  \/ CleanJudge
  \/ CleanRewrite
  \/ CleanHandle

CleanSpec == InitClean /\ [][NextClean]_vars

(* ======================================================================= *)
(*     the process: __main__.py main and config.load_config                *)
(* ======================================================================= *)
\* files named on the command line or found in input_dir
MaxFiles == 2

\* the configuration file: absent, not TOML, without [api] key, complete
Configs == {"missing", "broken", "nokey", "ok"}
\* a target: whether the file exists, and whether process_file returns or
\* is left by an exception
Targets == [exists : BOOLEAN, outcome : {"ok", "raise"}]
TargetLists == UNION {[1 .. n -> Targets] : n \in 0 .. MaxFiles}

InitMain ==
  /\ Stopped
  /\ assign = IdleAssign
  /\ cleaning = IdleCleaning
  /\ proc \in {[IdleProc EXCEPT !.config = c, !.targets = ts] :
                 c \in Configs, ts \in TargetLists}
  /\ output = NoOutput
  /\ quality = NoQuality
  /\ cursor = IdleCursor

\* sys.exit(status), and the handler of __main__.py lines 90-94
Exit(status) == [proc EXCEPT !.pc = "exited", !.exit = status]

\* main line 59, load_config lines 99-108: a missing file is replaced by
\* the default one and create_default_config ends with sys.exit(0)
MainLoadConfig ==
  /\ proc.pc = "start"
  /\ proc' = IF proc.config = "missing" THEN Exit(0)
             ELSE IF proc.config = "broken"
             THEN [Exit(1) EXCEPT !.raised = TRUE]
             ELSE IF proc.config = "nokey" THEN Exit(1)
             ELSE [proc EXCEPT !.pc = "targets"]
  /\ UNCHANGED pipeline_vars
  /\ UNCHANGED <<shutdown_flag, calls, model_pos, assign, cleaning, output,
                 quality, cursor>>

\* main lines 66-77
MainTargets ==
  /\ proc.pc = "targets"
  /\ proc' = IF proc.targets = << >> THEN Exit(1)
             ELSE [proc EXCEPT !.pc = "loop"]
  /\ UNCHANGED pipeline_vars
  /\ UNCHANGED <<shutdown_flag, calls, model_pos, assign, cleaning, output,
                 quality, cursor>>

\* main lines 79-85: the head of the loop over the targets
MainFile ==
  /\ proc.pc = "loop"
  /\ proc' = IF proc.i > Len(proc.targets) \/ shutdown_flag
             THEN [proc EXCEPT !.pc = "return"]
             ELSE IF ~proc.targets[proc.i].exists
             THEN [proc EXCEPT !.i = @ + 1]
             ELSE [proc EXCEPT !.pc = "process"]
  /\ UNCHANGED pipeline_vars
  /\ UNCHANGED <<shutdown_flag, calls, model_pos, assign, cleaning, output,
                 quality, cursor>>

\* main line 86: process_file returns, or an exception leaves main and is
\* handled at lines 92-94
MainProcess ==
  /\ proc.pc = "process"
  /\ proc' = IF proc.targets[proc.i].outcome = "raise"
             THEN [Exit(1) EXCEPT !.raised = TRUE]
             ELSE [proc EXCEPT !.pc = "loop", !.i = @ + 1]
  /\ UNCHANGED pipeline_vars
  /\ UNCHANGED <<shutdown_flag, calls, model_pos, assign, cleaning, output,
                 quality, cursor>>

\* main returns: the interpreter exits with status 0
MainReturn ==
  /\ proc.pc = "return"
  /\ proc' = Exit(0)
  /\ UNCHANGED pipeline_vars
  /\ UNCHANGED <<shutdown_flag, calls, model_pos, assign, cleaning, output,
                 quality, cursor>>

\* an interrupt while the process runs
MainSignal ==
  /\ proc.pc # "exited"
  /\ Signal

NextMain ==
  \/ MainSignal
  \/ MainLoadConfig
  \/ MainTargets
  \/ MainFile
  \/ MainProcess
  \/ MainReturn

MainSpec == InitMain /\ [][NextMain]_vars

(* ======================================================================= *)
(*                 the quality gate: clean.py is_garbage                   *)
(* ======================================================================= *)
\* a text is the sequence of its characters; the characters of the model:
\* two letters and the line break
Alphabet == {"a", "b", "\n"}
Units == UNION {[1 .. n -> Alphabet] : n \in 1 .. MaxUnitLen}

RECURSIVE times(_, _)
\* unit * n of Python
times(unit, n) == IF n = 0 THEN << >> ELSE unit \o times(unit, n - 1)

\* str.strip() on a text over Alphabet
strip(text) ==
  LET inked == {i \in 1 .. Len(text) : text[i] # "\n"}
      first == CHOOSE i \in inked : \A j \in inked : i <= j
      last == CHOOSE i \in inked : \A j \in inked : j <= i
  IN  IF inked = {} THEN << >> ELSE SubSeq(text, first, last)

\* the texts is_garbage is called with (ocr.py line 59, on the stripped
\* answer of clean_markdown): a unit written 0..MaxReps times, stripped
GarbageTexts == {strip(times(unit, n)) : unit \in Units, n \in 0 .. MaxReps}

\* re.finditer(r'(.{4,50})\1{4,}', text) finds a match (line 53): a group
\* of 4 to 50 characters followed by at least 4 more copies of itself; the
\* pattern is compiled without re.DOTALL, so '.' matches every character
\* except the line break
has_repeat_match(text) ==
  \E i \in 1 .. Len(text), n \in repeat_min_len .. repeat_max_len :
     /\ i + (repeat_copies + 1) * n - 1 <= Len(text)
     /\ \A j \in i .. i + n - 1 : text[j] # "\n"
     /\ \A j \in i .. i + repeat_copies * n - 1 : text[j + n] = text[j]

\* lines 57-59: the share of CJK, latin, digit, punctuation and whitespace
\* characters; every character of Alphabet is in the class
low_known_share(text) ==
  LET cjk_en == Cardinality({i \in 1 .. Len(text) : text[i] \in Alphabet})
  IN  Len(text) > share_min_len /\ 10 * cjk_en < 3 * Len(text)

\* lines 62-66: text.split('\n') has more than 10 lines and more than half
\* of them are one character long once stripped
many_single_char_lines(text) ==
  LET breaks == {i \in 1 .. Len(text) : text[i] = "\n"}
      ends == breaks \cup {Len(text) + 1}
      starts == breaks \cup {0}
      single == {b \in starts : b + 1 \notin ends /\ b + 2 \in ends}
  IN  /\ Cardinality(starts) > lines_min
      /\ 2 * Cardinality(single) > Cardinality(starts)

\* clean.is_garbage (lines 47-84); none of the hallucination patterns of
\* lines 69-82 can match a text over Alphabet: each needs a CJK character
\* or "//"
is_garbage(text) ==
  \/ Len(text) < garbage_min_len
  \/ has_repeat_match(text)
  \/ low_known_share(text)
  \/ many_single_char_lines(text)

InitGarbage ==
  /\ Stopped
  /\ assign = IdleAssign
  /\ cleaning = IdleCleaning
  /\ proc = IdleProc
  /\ output = NoOutput
  /\ quality \in {[pc |-> "called", text |-> t, garbage |-> FALSE] :
                    t \in GarbageTexts}
  /\ cursor = IdleCursor

\* is_garbage returns
IsGarbage ==
  /\ quality.pc = "called"
  /\ quality' = [quality EXCEPT !.pc = "returned",
                                !.garbage = is_garbage(quality.text)]
  /\ UNCHANGED pipeline_vars
  /\ UNCHANGED <<shutdown_flag, calls, model_pos, assign, cleaning, proc,
                 output, cursor>>

NextGarbage == IsGarbage

GarbageSpec == InitGarbage /\ [][NextGarbage]_vars


(* ======================================================================= *)
(*      the context of a cleaning: _clean_worker lines 63-73               *)
(* ======================================================================= *)
\* the pages of the document being cleaned, each with a text of its own
ContextPages == 0 .. (MaxContextPages - 1)
PageText(k) == "text of page " \o ToString(k)
ContextMaps == {[k \in S |-> PageText(k)] : S \in SUBSET ContextPages}

InitContext ==
  /\ \E res \in ContextMaps : StoppedWith(res)
  /\ assign = IdleAssign
  /\ cleaning = IdleCleaning
  /\ proc = IdleProc
  /\ output = NoOutput
  /\ quality = NoQuality
  /\ cursor = IdleCursor

\* lines 53-60: the item of a page is taken from clean_queue; its OCR text
\* is in the Result Map
ContextTake ==
  /\ cleaning.pc = "idle"
  /\ \E idx \in DOMAIN results :
       cleaning' = [IdleCleaning EXCEPT !.pc = "keys", !.idx = idx,
                                        !.text = results[idx]]
  /\ UNCHANGED pipeline_vars
  /\ UNCHANGED <<shutdown_flag, calls, model_pos, assign, proc, output,
                 quality, cursor>>

\* lines 63-64: sorted(results) under results_lock
ContextKeys ==
  /\ cleaning.pc = "keys"
  /\ cleaning' = [cleaning EXCEPT !.pc = "read",
                                  !.sorted_keys = SortedSeq(DOMAIN results)]
  /\ UNCHANGED pipeline_vars
  /\ UNCHANGED <<shutdown_flag, calls, model_pos, assign, proc, output,
                 quality, cursor>>

\* dict.get(key, "")
get(res, key) == IF key \in DOMAIN res THEN res[key] ELSE ""

\* lines 65-71: the position of idx in sorted_keys (0 where Python has -1),
\* and the texts of the keys before and after it, read from results as it
\* is now
ContextRead ==
  /\ cleaning.pc = "read"
  /\ LET keys == cleaning.sorted_keys
         found == {p \in 1 .. Len(keys) : keys[p] = cleaning.idx}
         pos == IF found = {} THEN 0 ELSE CHOOSE p \in found : TRUE
     IN  cleaning' = [cleaning EXCEPT
           !.pc = "context",
           !.prev_text = IF pos > 1 THEN get(results, keys[pos - 1]) ELSE "",
           !.next_text = IF pos >= 1 /\ pos < Len(keys)
                         THEN get(results, keys[pos + 1]) ELSE ""]
  /\ UNCHANGED pipeline_vars
  /\ UNCHANGED <<shutdown_flag, calls, model_pos, assign, proc, output,
                 quality, cursor>>

\* meanwhile another thread stores the OCR text of another page (line 108)
\* or removes another page that cannot be repaired (line 80)
ContextOther ==
  /\ cleaning.pc \in {"keys", "read"}
  /\ \E k \in ContextPages \ {cleaning.idx} :
       results' = IF k \in DOMAIN results THEN DictPop(results, k)
                  ELSE DictPut(results, k, PageText(k))
  /\ UNCHANGED <<doc, do_clean, disk, progress, pc, page_i, tasks, task_i,
                 round_num, retry_pages, unsaved, ocr_queue, ocr_done_event,
                 ocr_all_done, executor, consumer, workers, clean_queue,
                 cleaners, save_keys, ret, hist>>
  /\ UNCHANGED <<shutdown_flag, calls, model_pos, assign, cleaning, proc,
                 output, quality, cursor>>

NextContext ==
  \/ ContextTake
  \/ ContextKeys
  \/ ContextRead
  \/ ContextOther

ContextSpec == InitContext /\ [][NextContext]_vars


(* ======================================================================= *)
(*     the periodic snapshots of a round: _on_ocr_done lines 97-123        *)
(* ======================================================================= *)
SnapPages == 0 .. (MaxSnapPages - 1)

\* the first round of a document of MaxSnapPages pages of method ai, with
\* cleaning off and no earlier progress file, at the moment the consumer has
\* submitted every page to the pool and left its loop: the main thread
\* waits in the join of line 182
InitSnapshot ==
  /\ calls = [t \in Callers |-> IdleCall]
  /\ model_pos = 1
  /\ doc = [k \in SnapPages |-> AiPage]
  /\ do_clean = FALSE
  /\ disk = "ok"
  /\ progress = NoFile
  /\ shutdown_flag = FALSE
  /\ pc = "join_consumer"
  /\ page_i = MaxSnapPages
  /\ results = EmptyDict
  /\ tasks = [n \in 1 .. MaxSnapPages |-> Task(n - 1, "ai", "")]
  /\ task_i = MaxSnapPages + 1
  /\ round_num = 0
  /\ retry_pages = {}
  /\ unsaved = 0
  /\ ocr_queue = << >>
  /\ ocr_done_event = TRUE
  /\ ocr_all_done = FALSE
  /\ executor = [created |-> TRUE, shut |-> TRUE,
                 work |-> [n \in 1 .. MaxSnapPages |-> Task(n - 1, "ai", "")]]
  /\ consumer = [pc |-> "exit", task |-> None]
  /\ workers = [w \in Workers |-> IdleWorker]
  /\ clean_queue = << >>
  /\ cleaners = [c \in Cleaners |-> NoCleaner]
  /\ save_keys = {}
  /\ ret = "none"
  /\ hist = [loaded |-> NoFile,
             submits |-> ZeroCount,
             errors |-> ZeroCount,
             late_submit |-> FALSE,
             extracted |-> EmptyDict,
             saved |-> FALSE,
             deleted |-> FALSE,
             err_round |-> [k \in Pages |-> -1],
             dropped_clean |-> {},
             round_set |-> {},
             round_done |-> {},
             handed |-> {},
             cleans |-> ZeroCount,
             resumed |-> FALSE]
  /\ assign = IdleAssign
  /\ cleaning = IdleCleaning
  /\ proc = IdleProc
  /\ output = NoOutput
  /\ quality = NoQuality
  /\ cursor = IdleCursor

\* the pool threads run the calls and their callbacks
NextSnapshot == Worker

SnapshotSpec == InitSnapshot /\ [][NextSnapshot]_vars


(* ======================================================================= *)
(*        a cancelled run followed by a second run of the same file        *)
(* ======================================================================= *)
\* the first run: cleaning on, no progress file yet
InitResume ==
  /\ Init
  /\ do_clean
  /\ progress = NoFile

\* the program is started again on the same document after a run that was
\* interrupted: __main__ builds a fresh process (flag clear, no threads) and
\* extract_pdf_method line 221 loads what the progress file holds; the
\* document, the configuration and the files on disk are what they were
Resume ==
  /\ ~hist.resumed
  /\ shutdown_flag
  /\ pc \in {"returned", "raised", "killed"}
  /\ shutdown_flag' = FALSE
  /\ pc' = "classify"
  /\ page_i' = 0
  /\ results' = load_progress(progress)
  /\ tasks' = << >>
  /\ task_i' = 1
  /\ round_num' = 0
  /\ retry_pages' = {}
  /\ unsaved' = 0
  /\ ocr_queue' = << >>
  /\ ocr_done_event' = FALSE
  /\ ocr_all_done' = FALSE
  /\ executor' = NewExecutor
  /\ consumer' = NoConsumer
  /\ workers' = [w \in Workers |-> IdleWorker]
  /\ clean_queue' = << >>
  /\ cleaners' = [c \in Cleaners |-> NoCleaner]
  /\ save_keys' = {}
  /\ ret' = "none"
  /\ hist' = [loaded |-> progress,
              submits |-> ZeroCount,
              errors |-> ZeroCount,
              late_submit |-> FALSE,
              extracted |-> EmptyDict,
              saved |-> FALSE,
              deleted |-> FALSE,
              err_round |-> [k \in Pages |-> -1],
              dropped_clean |-> {},
              round_set |-> {},
              round_done |-> {},
              handed |-> hist.handed,
              cleans |-> ZeroCount,
              resumed |-> TRUE]
  /\ proc' = IdleProc
  /\ UNCHANGED <<doc, do_clean, disk, progress, output>>
  /\ UNCHANGED <<calls, model_pos, assign, cleaning, quality, cursor>>

\* the first run can be interrupted, the second one runs undisturbed
NextResume ==
  \/ ~hist.resumed /\ Next
  \/ hist.resumed /\ NextRun
  \/ Resume

ResumeSpec == InitResume /\ [][NextResume]_vars

(* ======================================================================= *)
(*     the model cursors: AppConfig.next_model and next_tool_model         *)
(* ======================================================================= *)
\* init_globals lines 149-166: _tool_cycle is a cycle over tool_models, or
\* None when the configuration names no tool model
InitCursor ==
  /\ Stopped
  /\ assign = IdleAssign
  /\ cleaning = IdleCleaning
  /\ proc = IdleProc
  /\ output = NoOutput
  /\ quality = NoQuality
  /\ \E b \in BOOLEAN : cursor = [IdleCursor EXCEPT !.has_tool_cycle = b]

advance_tool(pos) == (pos % NumToolModels) + 1

CursorFrame ==
  /\ UNCHANGED pipeline_vars
  /\ UNCHANGED <<shutdown_flag, calls, assign, cleaning, proc, output, quality>>

\* a thread calls one of the two methods: a pool thread in ocr_vlm (ocr.py
\* lines 31, 56, 70) or a cleaning thread in should_clean (clean.py line 109)
CursorCall(t) ==
  /\ cursor.threads[t].pc = "idle"
  /\ Len(cursor.handed) + cursor.tool_calls < MaxCursorCalls
  /\ \E fn \in {"next_model", "next_tool_model"} :
       cursor' = [cursor EXCEPT !.threads[t] =
                    [pc |-> "acquire", fn |-> fn, got |-> NoModel]]
  /\ UNCHANGED model_pos
  /\ CursorFrame

\* lines 37 and 41: with self._model_lock
CursorAcquire(t) ==
  /\ cursor.threads[t].pc = "acquire"
  /\ cursor.lock = 0
  /\ cursor' = [cursor EXCEPT !.lock = t, !.threads[t].pc = "locked"]
  /\ UNCHANGED model_pos
  /\ CursorFrame

\* one cursor for both methods: next_tool_model takes the next entry of
\* the OCR model cycle
CursorNextShared(t) ==
  /\ cursor.threads[t].pc = "locked"
  /\ IF cursor.threads[t].fn = "next_model"
     THEN cursor' = [cursor EXCEPT
                 !.threads[t].pc = "release",
                 !.threads[t].got = [pool |-> "models",
                                     pos |-> next_model(model_pos)],
                 !.handed = Append(@, next_model(model_pos))]
     ELSE cursor' = [cursor EXCEPT
                 !.threads[t].pc = "release",
                 !.threads[t].got = [pool |-> "models",
                                     pos |-> next_model(model_pos)],
                 !.tool_calls = @ + 1]
  /\ model_pos' = advance(model_pos)
  /\ CursorFrame

\* line 38: next(self._model_cycle); lines 42-44: next(self._tool_cycle),
\* or clean_model when there is no tool cycle
CursorNext(t) ==
  /\ cursor.threads[t].pc = "locked"
  /\ IF cursor.threads[t].fn = "next_model"
     THEN /\ cursor' = [cursor EXCEPT
                 !.threads[t].pc = "release",
                 !.threads[t].got = [pool |-> "models",
                                     pos |-> next_model(model_pos)],
                 !.handed = Append(@, next_model(model_pos))]
          /\ model_pos' = advance(model_pos)
     ELSE /\ cursor' = [cursor EXCEPT
                 !.threads[t].pc = "release",
                 !.threads[t].got =
                    IF cursor.has_tool_cycle
                    THEN [pool |-> "tool_models", pos |-> cursor.tool_pos]
                    ELSE [pool |-> "clean_model", pos |-> 0],
                 !.tool_pos = IF cursor.has_tool_cycle THEN advance_tool(@)
                              ELSE @,
                 !.tool_calls = @ + 1]
          /\ UNCHANGED model_pos
  /\ CursorFrame

\* the end of the with block: the lock is released and the method returns
CursorRelease(t) ==
  /\ cursor.threads[t].pc = "release"
  /\ cursor' = [cursor EXCEPT !.lock = 0, !.threads[t].pc = "idle"]
  /\ UNCHANGED model_pos
  /\ CursorFrame

Cursor == \E t \in CursorThreads :
  \/ CursorCall(t)
  \/ CursorAcquire(t)
  \/ CursorNext(t)
  \/ CursorRelease(t)

NextCursor == Cursor

CursorSpec == InitCursor /\ [][NextCursor]_vars

\* one ocr_vlm call at a time in one pool thread, while other threads call
\* next_model and next_tool_model
NextSharedOcr ==
  \/ NextOcr
  \/ Cursor

SharedOcrSpec == InitOcr /\ [][NextSharedOcr]_vars

(* ======================================================================= *)
(*      the single-file script: src/extract_text.py extract_pdf_method     *)
(* ======================================================================= *)
\* line 345: the script does not look at the images of a page
script_needs_ocr(page) ==
  \/ page.method \in {"ai", "ocr"}
  \/ /\ page.method \in {"auto", "auto_ai"}
     /\ Len(page.text) < min_text_len

\* process_ocr_page of the script (lines 246-262): no flag is read
script_process_ocr_page(task, ocr_text, vlm_text) ==
  IF task.method = "ai" THEN vlm_text
  ELSE IF task.method = "ocr" THEN ocr_text
  ELSE IF task.method = "auto_ai"
       THEN (IF vlm_text # "" THEN vlm_text ELSE task.text)
  ELSE IF Len(ocr_text) >= min_ocr_len THEN ocr_text
  ELSE IF vlm_text # "" THEN vlm_text ELSE task.text

\* line 375: every entry of results, in the order of the page index
script_join(res) ==
  LET order == SortedSeq(DOMAIN res)
  IN  join("\n\n---\n\n", [n \in 1 .. Len(order) |-> res[order[n]]])

\* lines 265-326: the document is open, the progress file is loaded, the
\* consumer thread is started; tasks lists the pages put on ocr_queue
InitScript ==
  /\ calls = [t \in Callers |-> IdleCall]
  /\ model_pos = 1
  /\ doc \in [Pages -> PageKinds]
  /\ do_clean = FALSE
  /\ disk = "ok"
  /\ progress \in InitialProgress
  /\ shutdown_flag = FALSE
  /\ pc = "s_loop"
  /\ page_i = 0
  /\ results = load_progress(progress)
  /\ tasks = << >>
  /\ task_i = 1
  /\ round_num = 0
  /\ retry_pages = {}
  /\ unsaved = 0
  /\ ocr_queue = << >>
  /\ ocr_done_event = FALSE
  /\ ocr_all_done = FALSE
  /\ executor = NewExecutor
  /\ consumer = [pc |-> "init", task |-> None]
  /\ workers = [w \in Workers |-> IdleWorker]
  /\ clean_queue = << >>
  /\ cleaners = [c \in Cleaners |-> NoCleaner]
  /\ save_keys = {}
  /\ ret = "none"
  /\ hist = [loaded |-> progress,
             submits |-> ZeroCount,
             errors |-> ZeroCount,
             late_submit |-> FALSE,
             extracted |-> EmptyDict,
             saved |-> FALSE,
             deleted |-> FALSE,
             err_round |-> [k \in Pages |-> -1],
             dropped_clean |-> {},
             round_set |-> {},
             round_done |-> {},
             handed |-> {},
             cleans |-> ZeroCount,
             resumed |-> FALSE]
  /\ assign = IdleAssign
  /\ cleaning = IdleCleaning
  /\ proc = IdleProc
  /\ output = NoOutput
  /\ quality = NoQuality
  /\ cursor = IdleCursor

\* what the script leaves alone
ScriptFrame ==
  UNCHANGED <<doc, do_clean, disk, shutdown_flag, task_i, round_num,
              retry_pages, ocr_all_done, clean_queue, cleaners, calls,
              model_pos, assign, cleaning, proc, quality, cursor>>

\* lines 330-355: one page of the producer loop; a put waits while the
\* queue holds MAX_WORKERS * 2 tasks
ScriptLoop ==
  /\ pc = "s_loop"
  /\ IF page_i = Total \/ shutdown_flag
     THEN /\ pc' = "s_set_done"
          /\ UNCHANGED <<page_i, results, tasks, ocr_queue>>
     ELSE IF page_i \in DOMAIN results
     THEN /\ page_i' = page_i + 1
          /\ UNCHANGED <<pc, results, tasks, ocr_queue>>
     ELSE IF script_needs_ocr(doc[page_i])
     THEN /\ Len(ocr_queue) < max_workers * 2
          /\ ocr_queue' = Append(ocr_queue, Task(page_i, doc[page_i].method,
                                                 doc[page_i].text))
          /\ tasks' = Append(tasks, Task(page_i, doc[page_i].method,
                                         doc[page_i].text))
          /\ page_i' = page_i + 1
          /\ UNCHANGED <<pc, results>>
     ELSE /\ results' = DictPut(results, page_i, doc[page_i].text)
          /\ page_i' = page_i + 1
          /\ UNCHANGED <<pc, tasks, ocr_queue>>
  /\ UNCHANGED <<progress, unsaved, ocr_done_event, executor, consumer,
                 workers, save_keys, ret, hist, output>>
  /\ ScriptFrame

\* line 357
ScriptSetDone ==
  /\ pc = "s_set_done"
  /\ ocr_done_event' = TRUE
  /\ pc' = "s_drain"
  /\ UNCHANGED <<progress, page_i, results, tasks, unsaved, ocr_queue,
                 executor, consumer, workers, save_keys, ret, hist, output>>
  /\ ScriptFrame

\* lines 358-362: the tasks still on the queue are taken off it, one
\* get_nowait at a time, whether the run is cancelled or not
ScriptDrain ==
  /\ pc = "s_drain"
  /\ IF ocr_queue # << >>
     THEN /\ ocr_queue' = Tail(ocr_queue)
          /\ UNCHANGED pc
     ELSE /\ pc' = "s_sentinel"
          /\ UNCHANGED ocr_queue
  /\ UNCHANGED <<progress, page_i, results, tasks, unsaved, ocr_done_event,
                 executor, consumer, workers, save_keys, ret, hist, output>>
  /\ ScriptFrame

\* lines 363-365
ScriptSentinel ==
  /\ pc = "s_sentinel"
  /\ Len(ocr_queue) < max_workers * 2
  /\ ocr_queue' = Append(ocr_queue, None)
  /\ executor' = IF shutdown_flag /\ executor.created
                 THEN CancelFutures(executor) ELSE executor
  /\ pc' = "s_join"
  /\ UNCHANGED <<progress, page_i, results, tasks, unsaved, ocr_done_event,
                 consumer, workers, save_keys, ret, hist, output>>
  /\ ScriptFrame

\* line 366: consumer_thread.join(timeout=3) returns when the thread has
\* ended or when three seconds have passed, whichever comes first; line 367
ScriptJoin ==
  /\ pc = "s_join"
  /\ pc' = "s_save"
  /\ UNCHANGED <<progress, page_i, results, tasks, unsaved, ocr_queue,
                 ocr_done_event, executor, consumer, workers, save_keys, ret,
                 hist, output>>
  /\ ScriptFrame

\* line 368: save_progress starts to iterate results (no lock held)
ScriptSaveBegin ==
  /\ pc = "s_save"
  /\ save_keys' = DOMAIN results
  /\ pc' = "s_save_end"
  /\ UNCHANGED <<progress, page_i, results, tasks, unsaved, ocr_queue,
                 ocr_done_event, executor, consumer, workers, ret, hist,
                 output>>
  /\ ScriptFrame

\* line 368, the end of the iteration: a key stored meanwhile by a callback
\* makes the dict iteration raise RuntimeError, which leaves the function
ScriptSaveEnd ==
  /\ pc = "s_save_end"
  /\ IF DOMAIN results # save_keys
     THEN /\ pc' = "s_raised"
          /\ ret' = "raised"
          /\ UNCHANGED progress
     ELSE /\ progress' = save_progress(results)
          /\ pc' = "s_final"
          /\ UNCHANGED ret
  /\ save_keys' = {}
  /\ UNCHANGED <<page_i, results, tasks, unsaved, ocr_queue, ocr_done_event,
                 executor, consumer, workers, hist, output>>
  /\ ScriptFrame

\* lines 370-375: "" when cancelled; otherwise the progress file is
\* removed and the joined text returned
ScriptFinal ==
  /\ pc = "s_final"
  /\ IF shutdown_flag
     THEN /\ ret' = "empty"
          /\ UNCHANGED <<progress, output, hist>>
     ELSE /\ progress' = delete_progress(progress)
          /\ hist' = [hist EXCEPT !.deleted = TRUE]
          /\ ret' = "results"
          /\ output' = [exists |-> TRUE, content |-> script_join(results)]
  /\ pc' = "s_returned"
  /\ UNCHANGED <<page_i, results, tasks, unsaved, ocr_queue, ocr_done_event,
                 executor, consumer, workers, save_keys>>
  /\ ScriptFrame

\* lines 305-306: the pool is created
ScriptConsumerInit ==
  /\ consumer.pc = "init"
  /\ executor' = [executor EXCEPT !.created = TRUE]
  /\ consumer' = [consumer EXCEPT !.pc = "check"]
  /\ UNCHANGED <<progress, pc, page_i, results, tasks, unsaved, ocr_queue,
                 ocr_done_event, workers, save_keys, ret, hist, output>>
  /\ ScriptFrame

\* lines 307-310: the loop condition and the flag
ScriptConsumerCheck ==
  /\ consumer.pc = "check"
  /\ IF ocr_done_event /\ ocr_queue = << >>
     THEN /\ consumer' = [consumer EXCEPT !.pc = "shutdown"]
          /\ UNCHANGED executor
     ELSE IF shutdown_flag
     THEN /\ executor' = CancelFutures(executor)
          /\ consumer' = [consumer EXCEPT !.pc = "exit"]
     ELSE /\ consumer' = [consumer EXCEPT !.pc = "get"]
          /\ UNCHANGED executor
  /\ UNCHANGED <<progress, pc, page_i, results, tasks, unsaved, ocr_queue,
                 ocr_done_event, workers, save_keys, ret, hist, output>>
  /\ ScriptFrame

\* lines 311-318: get(timeout=0.1); None ends the loop, a task is
\* submitted with _collect_result as its callback
ScriptConsumerGet ==
  /\ consumer.pc = "get"
  /\ IF ocr_queue = << >>
     THEN /\ consumer' = [consumer EXCEPT !.pc = "check"]
          /\ UNCHANGED <<ocr_queue, executor>>
     ELSE /\ ocr_queue' = Tail(ocr_queue)
          /\ IF Head(ocr_queue) = None
             THEN /\ consumer' = [consumer EXCEPT !.pc = "shutdown"]
                  /\ UNCHANGED executor
             ELSE /\ executor' = [executor EXCEPT
                                    !.work = Append(@, Head(ocr_queue))]
                  /\ consumer' = [consumer EXCEPT !.pc = "check"]
  /\ UNCHANGED <<progress, pc, page_i, results, tasks, unsaved,
                 ocr_done_event, workers, save_keys, ret, hist, output>>
  /\ ScriptFrame

\* lines 319-322: shutdown(wait=True) returns when the pool has run every
\* work item it was given
ScriptConsumerShutdown ==
  /\ consumer.pc = "shutdown"
  /\ IF shutdown_flag
     THEN executor' = CancelFutures(executor)
     ELSE /\ executor.work = << >>
          /\ \A w \in Workers : workers[w].pc = "idle"
          /\ executor' = [executor EXCEPT !.shut = TRUE]
  /\ consumer' = [consumer EXCEPT !.pc = "dead"]
  /\ UNCHANGED <<progress, pc, page_i, results, tasks, unsaved, ocr_queue,
                 ocr_done_event, workers, save_keys, ret, hist, output>>
  /\ ScriptFrame

\* a pool thread takes the next work item
ScriptWorkerTake(w) ==
  /\ workers[w].pc = "idle"
  /\ executor.work # << >>
  /\ executor' = [executor EXCEPT !.work = Tail(@)]
  /\ workers' = [workers EXCEPT ![w] =
       [pc |-> "running", task |-> Head(executor.work), text |-> "",
        snapshot |-> EmptyDict]]
  /\ UNCHANGED <<progress, pc, page_i, results, tasks, unsaved, ocr_queue,
                 ocr_done_event, consumer, save_keys, ret, hist, output>>
  /\ ScriptFrame

\* process_ocr_page returns
ScriptWorkerFinish(w) ==
  /\ workers[w].pc = "running"
  /\ \E ocr_text \in OcrOutputs, vlm_text \in VlmOutputs :
       workers' = [workers EXCEPT
         ![w].pc = "callback",
         ![w].text = script_process_ocr_page(workers[w].task, ocr_text,
                                             vlm_text)]
  /\ UNCHANGED <<progress, pc, page_i, results, tasks, unsaved, ocr_queue,
                 ocr_done_event, executor, consumer, save_keys, ret, hist,
                 output>>
  /\ ScriptFrame

\* _collect_result (lines 288-298), all of it under results_lock
ScriptCollect(w) ==
  /\ workers[w].pc = "callback"
  /\ results' = DictPut(results, workers[w].task.idx, workers[w].text)
  /\ IF unsaved + 1 >= save_interval
     THEN /\ progress' = save_progress(results')
          /\ unsaved' = 0
     ELSE /\ unsaved' = unsaved + 1
          /\ UNCHANGED progress
  /\ workers' = [workers EXCEPT ![w] = IdleWorker]
  /\ UNCHANGED <<pc, page_i, tasks, ocr_queue, ocr_done_event, executor,
                 consumer, save_keys, ret, hist, output>>
  /\ ScriptFrame

ScriptWorker == \E w \in Workers :
  \/ ScriptWorkerTake(w)
  \/ ScriptWorkerFinish(w)
  \/ ScriptCollect(w)

NextScript ==
  \/ ScriptLoop
  \/ ScriptSetDone
  \/ ScriptDrain
  \/ ScriptSentinel
  \/ ScriptJoin
  \/ ScriptSaveBegin
  \/ ScriptSaveEnd
  \/ ScriptFinal
  \/ ScriptConsumerInit
  \/ ScriptConsumerCheck
  \/ ScriptConsumerGet
  \/ ScriptConsumerShutdown
  \/ ScriptWorker

ScriptSpec == InitScript /\ [][NextScript]_vars

(* ======================================================================= *)
(*                             properties                                  *)
(* ======================================================================= *)
\* extract_pdf_method has returned its Result Map (no cancellation)
Completed == pc = "done" /\ ret = "results"
\* extract_pdf_method has returned {} because of the flag
Cancelled == pc = "done" /\ ret = "empty"
\* the main thread is inside _run_pipeline
InRound == pc \in {"put", "set_done", "sentinel", "cleanup", "join_consumer",
                   "set_all_done", "join_clean", "save", "save_end"}
\* the text the progress file holds for page k
Persisted(file, k) == file.completed[ToString(k)]
HasPage(file, k) == file.exists /\ ToString(k) \in DOMAIN file.completed

\* C1: when extract_pdf_method has completed without cancellation, the
\* Result Map it returns has an entry for every page index of the document.
C1_EveryPageHasEntry ==
  Completed => DOMAIN results = Pages

\* C2: at a cancelled return, the progress snapshot on disk holds every page
\* whose extraction completed before the signal (its result was handed to
\* _on_ocr_done with the flag clear), with the text the extraction produced.
C2_SnapshotHoldsCompletedPages ==
  Cancelled =>
     \A k \in DOMAIN hist.extracted :
        HasPage(progress, k) /\ Persisted(progress, k) = hist.extracted[k]

\* C3: in the step in which extract_pdf_method returns because of the
\* cancellation, the Result Map it holds (when it holds any page) is what
\* the progress snapshot on disk contains.
C3_SavedBeforeCancelledReturn ==
  [][(pc # "done" /\ pc' = "done" /\ ret' = "empty" /\ results # EmptyDict)
       => progress = save_progress(results)]_vars

\* C4: the progress snapshot has been deleted only if the Result Map has an
\* entry for every page index and no page is left in the Retry Set.
C4_DeletedOnlyWhenComplete ==
  hist.deleted => (DOMAIN results = Pages /\ retry_pages = {})

\* C5: a run on a document whose loaded progress snapshot covers every page
\* index submits no page to the worker pool, and the Result Map it returns
\* is the persisted one.
C5_FullProgressRerun ==
  (\A k \in Pages : HasPage(hist.loaded, k)) =>
     /\ \A k \in Pages : hist.submits[k] = 0
     /\ Completed =>
          /\ DOMAIN results = Pages
          /\ \A k \in Pages : results[k] = Persisted(hist.loaded, k)

C5_Witness ==
  /\ Completed
  /\ \A k \in Pages : HasPage(hist.loaded, k)

\* C6: a page is submitted at most 1 + 3 times (the first round and three
\* retry rounds); when the run completes, the pages whose cleaning returned
\* TEXT_ERROR in every one of those rounds are exactly the pages left in the
\* Retry Set, and each of them is in the Result Map as the empty string.
C6_UnfixablePageRecordedEmpty ==
  \A k \in Pages :
     /\ hist.submits[k] <= 1 + max_retry_rounds
     /\ hist.errors[k] <= hist.submits[k]
     /\ Completed =>
          /\ (hist.errors[k] = 1 + max_retry_rounds) <=> (k \in retry_pages)
          /\ (hist.errors[k] = 1 + max_retry_rounds) =>
                (k \in DOMAIN results /\ results[k] = "")

C6_Witness ==
  /\ Completed
  /\ \E k \in Pages : hist.errors[k] = 1 + max_retry_rounds

C8_NoSubmitAfterFlag ==
  hist.late_submit = FALSE

\* C9: once the flag is set, a retry backoff stops waiting: the next step of
\* a call that is in its backoff sleep ends the sleep.
C9_BackoffObservesFlag ==
  [][\A t \in Callers :
       (shutdown_flag /\ calls[t].pc = "sleep" /\ calls'[t] # calls[t])
          => calls'[t].pc # "sleep"]_vars

\* C10: an uncancelled process_ocr_page call with method auto returns
\* non-empty text when its local OCR output, its VLM output or the embedded
\* text is non-empty.
C10_AutoKeepsNonEmptyCandidate ==
  \A t \in Callers :
     (/\ calls[t].pc = "done"
      /\ calls[t].method = "auto"
      /\ ~shutdown_flag
      /\ (calls[t].ocr_text # "" \/ calls[t].vlm_text # "" \/ calls[t].text # ""))
        => calls[t].result # ""

\* C11: one ocr_vlm call makes at most 3 requests, never leaves by an
\* exception, and returns "" when its last request failed or was rejected
\* by is_garbage.
C11_VlmBoundedNoRaise ==
  \A t \in Callers :
    /\ calls[t].requests <= vlm_attempts
    /\ calls[t].pc # "raised"
    /\ (calls[t].pc = "done" /\ calls[t].last \in {"garbage", "transient", "fatal"})
         => calls[t].vlm_text = ""

C11_Witness ==
  \E t \in Callers :
    /\ calls[t].pc = "done"
    /\ calls[t].requests = vlm_attempts
    /\ calls[t].last \in {"garbage", "transient"}
    /\ calls[t].vlm_text = ""

\* C12: a request that ends in an exception outside the transient class
\* goes straight to the handler of line 73, without backoff and without
\* taking the next model, and the handler returns "" with no further
\* request.
C12_FatalEndsCall ==
  [][\A t \in Callers :
       /\ (calls[t].pc = "request" /\ calls'[t].last = "fatal")
            => /\ calls'[t].pc = "except"
               /\ calls'[t].sleep_left = 0
               /\ calls'[t].model = calls[t].model
               /\ model_pos' = model_pos
       /\ (calls[t].pc = "except" /\ calls'[t] # calls[t])
            => /\ calls'[t].pc = "done"
               /\ calls'[t].vlm_text = ""
               /\ calls'[t].requests = calls[t].requests
               /\ model_pos' = model_pos]_vars

C12_Witness ==
  \E t \in Callers :
    /\ calls[t].pc = "done"
    /\ calls[t].last = "fatal"
    /\ calls[t].requests = 1
    /\ calls[t].vlm_text = ""

\* C13: the method assignment is built for every override list, gives each
\* page index of the document one method, and on overlapping ranges the
\* override listed last decides.
C13_EveryPageOneMethod ==
  LET names(spec, n) ==
        \/ spec.all
        \/ \E i \in DOMAIN spec.parts :
             LET part == spec.parts[i]
             IN  IF part.dash
                 THEN int(part.a) <= n /\ (part.b = "" \/ n <= int(part.b))
                 ELSE int(part.a) = n
      hits(k) == {j \in DOMAIN assign.overrides :
                    names(assign.overrides[j].pages, k + 1)}
      last(S) == CHOOSE j \in S : \A x \in S : x <= j
  IN  assign.pc \in {"done", "raised"}
        => /\ assign.pc = "done"
           /\ \A k \in Pages :
                /\ k \in DOMAIN assign.page_methods
                /\ assign.page_methods[k] =
                     IF hits(k) = {} THEN assign.default_method
                     ELSE assign.overrides[last(hits(k))].method

\* C15: parse_pages converts every pages string of the recognised forms,
\* without error, to the 0-based indices of the pages it names, all of
\* them in [0, total).
C15_ParsePagesDenotation ==
  LET names(spec, n) ==
        \/ spec.all
        \/ \E i \in DOMAIN spec.parts :
             LET part == spec.parts[i]
             IN  IF part.dash
                 THEN int(part.a) <= n /\ (part.b = "" \/ n <= int(part.b))
                 ELSE int(part.a) = n
  IN  assign.i > 1
        => LET spec == assign.overrides[assign.i - 1].pages
           IN  /\ assign.parsed.ok
               /\ assign.parsed.pages = {n - 1 : n \in {x \in PageNumbers : names(spec, x)}}
               /\ assign.parsed.pages \subseteq Pages

\* C14: a page that was looked at and was not in the loaded Result Map is
\* queued (a task with its rasterized image) exactly when its method is ai
\* or ocr, or its method is auto or auto_ai and its embedded text is
\* shorter than min_text_len or images cover more than 30% of it; any
\* other page has its embedded text in the Result Map and no task.
C14_QueuedIffNeedsOcr ==
  LET queued(k) == \E i \in DOMAIN tasks : tasks[i].idx = k
      wanted(page) ==
        \/ page.method \in {"ai", "ocr"}
        \/ /\ page.method \in {"auto", "auto_ai"}
           /\ (Len(page.text) < 50 \/ page.cover > 30)
  IN  pc \in {"classify", "enter"}
        => \A k \in Pages :
             (k < page_i /\ ~HasPage(hist.loaded, k))
               => /\ queued(k) <=> wanted(doc[k])
                  /\ ~wanted(doc[k])
                       => (k \in DOMAIN results /\ results[k] = doc[k].text)

C14_Witness ==
  /\ pc = "enter"
  /\ ~shutdown_flag
  /\ hist.loaded = NoFile
  /\ doc[0] = [method |-> "auto", text |-> Text500, cover |-> cover_limit]
  /\ doc[1] = [method |-> "auto", text |-> Text10, cover |-> cover_limit]
  /\ results = (0 :> Text500)
  /\ Len(tasks) = 1
  /\ tasks[1].idx = 1

\* C16: for a text that the local rules flag, smart_clean never asks the
\* judge; it makes the rewrite request only.
C16_LocalSkipsJudge ==
  cleaning.local
    => /\ cleaning.judge_calls = 0
       /\ (cleaning.pc = "handle" /\ ~shutdown_flag)
            => cleaning.rewrite_calls = 1

C16_Witness ==
  /\ cleaning.pc = "handle"
  /\ cleaning.local
  /\ cleaning.judge_calls = 0
  /\ cleaning.rewrite_calls = 1

\* C18: a judge request that fails sends the text to the rewrite step; a
\* rewrite request that fails gives the original text back, which the
\* worker leaves in the Result Map; after either the worker goes on with
\* its loop.
C18_CleanFailuresNotFatal ==
  [][/\ (cleaning.pc = "judge" /\ cleaning'.judge = "fail")
          => cleaning'.pc = "rewrite"
     /\ (cleaning.pc = "rewrite" /\ cleaning'.rewrite = "fail")
          => (cleaning'.pc = "handle" /\ cleaning'.cleaned = cleaning.text)
     /\ (cleaning.pc = "handle" /\ cleaning' # cleaning)
          => /\ cleaning'.pc = "idle"
             /\ cleaning.rewrite = "fail"
                  => (cleaning'.stored = cleaning.text /\ ~cleaning'.retry)]_vars

C18_Witness ==
  /\ cleaning.pc = "idle"
  /\ cleaning.judge = "fail"
  /\ cleaning.rewrite = "fail"
  /\ cleaning.stored = cleaning.text
  /\ cleaning.text # ""
  /\ cleaning.handled = 1

\* C17: when a round's _run_pipeline has returned, every page whose rewrite
\* answer in that round was the unfixable sentinel is in the returned Retry
\* Set and is not a key of the Result Map.
C17_UnfixableInRetryNotInResults ==
  LET returned == IF pc = "after_round" THEN 0 ELSE round_num - 1
  IN  pc \in {"after_round", "retry"}
        => \A k \in Pages :
             hist.err_round[k] = returned
               => (k \in retry_pages /\ k \notin DOMAIN results)

\* C19: when the progress file cannot be written, the run is not left by
\* an exception and every page whose periodic save failed is still handed
\* to cleaning.
C19_SaveFailureNotFatal ==
  disk = "fail" => (pc # "raised" /\ hist.dropped_clean = {})

\* C20: the process exits with a status other than 0 when the
\* configuration file is missing or has no API key and when there are no
\* targets, and with status 0 when main runs to its end, cancelled or not.
C20_ExitStatus ==
  proc.pc = "exited"
    => /\ proc.config \in {"missing", "nokey"} => proc.exit # 0
       /\ (proc.config = "ok" /\ proc.targets = << >>) => proc.exit # 0
       /\ (/\ proc.config = "ok" /\ proc.targets # << >>
           /\ ~proc.raised /\ proc.ctrl_c < 2)
            => proc.exit = 0

\* C21: the concatenated output of a document is the texts of the pages
\* whose text is not blank, in strictly increasing page order, joined by
\* the horizontal rule: a blank page adds neither text nor rule; and the
\* step that writes it is taken after the last round, with every thread of
\* the rounds ended and extract_pdf_method returned.
C21_OutputOrderedNoBlank ==
  [][output' # output =>
       LET rule == "\n\n---\n\n"
           kept == {k \in DOMAIN results : results[k] \notin {"", " ", "\n", "\t"}}
           upto[k \in -1 .. Total] ==
             IF k < 0 THEN ""
             ELSE IF k \notin kept THEN upto[k - 1]
             ELSE IF \E j \in kept : j < k
                  THEN upto[k - 1] \o rule \o results[k]
                  ELSE results[k]
       IN  /\ output'.content = upto[Total]
           /\ Completed
           /\ consumer.pc = "dead"
           /\ \A w \in Workers : workers[w].pc = "idle"
           /\ \A c \in Cleaners : cleaners[c].pc = "dead"]_vars

\* an output of two pages around nothing, and one that left a blank page out
C21_Witness ==
  /\ output.exists
  /\ \E k \in DOMAIN results : results[k] = ""
  /\ \E k \in DOMAIN results : output.content = results[k] /\ results[k] # ""

C21_WitnessTwoPages ==
  /\ output.exists
  /\ DOMAIN results = Pages
  /\ \A k \in Pages : results[k] # ""

\* C28: when process_file has returned for a document with at least one
\* completed page (a page whose extraction was handed to _on_ocr_done with
\* the flag clear and a text), the output of the document has been written or its
\* progress snapshot exists on disk.
C28_CompletedWorkKept ==
  (/\ pc = "returned"
   /\ \E k \in DOMAIN hist.extracted : hist.extracted[k] # "") =>
     (output.exists \/ progress.exists)

\* C22: the first call of the interrupt handler sets the cancellation flag
\* and changes nothing else of the run, which goes on; the flag once set
\* stays set; the second call ends the process at once with status 1: the
\* progress file, the output and the Result Map are left as they are and
\* no step of the run follows.
C22_SecondInterruptKills ==
  [][/\ shutdown_flag => shutdown_flag'
     /\ proc.ctrl_c >= 2 => UNCHANGED vars
     /\ proc'.ctrl_c # proc.ctrl_c =>
          /\ shutdown_flag'
          /\ proc'.ctrl_c = proc.ctrl_c + 1
          /\ UNCHANGED <<progress, output, results, retry_pages>>
          /\ proc.ctrl_c = 0 =>
               /\ proc'.pc = proc.pc
               /\ UNCHANGED <<pc, ret>>
               /\ UNCHANGED thread_vars
          /\ proc.ctrl_c >= 1 =>
               /\ proc'.pc = "exited"
               /\ proc'.exit = 1]_vars

\* the process ended by a second interrupt with an extracted page in the
\* Result Map that the progress file does not hold
C22_Witness ==
  /\ proc.pc = "exited"
  /\ proc.ctrl_c = 2
  /\ \E k \in DOMAIN hist.extracted :
        /\ hist.extracted[k] # ""
        /\ k \in DOMAIN results
        /\ ~HasPage(progress, k)

\* C23: a page that is waiting on clean_queue or is being cleaned has its
\* OCR result in the Result Map, with the text that was handed to the
\* cleaning: the cleaning of a page starts only after its result is stored.
C23_CleanAfterOcrWritten ==
  /\ \A n \in 1 .. Len(clean_queue) :
       /\ clean_queue[n].idx \in DOMAIN results
       /\ results[clean_queue[n].idx] = clean_queue[n].text
  /\ \A c \in Cleaners :
       cleaners[c].pc = "clean" =>
          /\ cleaners[c].idx \in DOMAIN results
          /\ results[cleaners[c].idx] = cleaners[c].text

\* one page is being cleaned while the OCR of another page is running
C23_Witness ==
  \E c \in Cleaners, w \in Workers :
     /\ cleaners[c].pc = "clean"
     /\ workers[w].pc = "running"
     /\ workers[w].task.idx # cleaners[c].idx

\* C24: a task handed to the worker pool in a retry round (rounds 1..3) is
\* a page of the Retry Set the preceding round returned, with method ai and
\* an empty embedded text, whatever method the page was classified with;
\* and when the retry round returns, the pages it handed to the pool are
\* exactly that Retry Set.
C24_RetryRoundRunsRetrySet ==
  [][/\ (round_num >= 1 /\ hist'.submits # hist.submits) =>
          /\ consumer.task.idx \in hist.round_set
          /\ consumer.task.method = "ai"
          /\ consumer.task.text = ""
     /\ (round_num >= 1 /\ pc = "save_end" /\ pc' = "retry") =>
          hist.round_done = hist.round_set]_vars

\* a page classified auto with embedded text has been through a retry round
C24_Witness ==
  /\ round_num >= 2
  /\ pc = "retry"
  /\ \E k \in hist.round_set :
       /\ doc[k].method = "auto"
       /\ doc[k].text # ""
       /\ hist.submits[k] >= 2

\* C25: is_garbage answers true for every text in which some substring of 4
\* to 50 characters, whatever its characters, occurs at least 5 times in a
\* row, and for every text shorter than 10 characters, the empty one
\* included.
C25_RepeatsAndShortAreGarbage ==
  quality.pc = "returned" =>
     LET text == quality.text
         repeats ==
           \E i \in 1 .. Len(text), n \in 4 .. 50 :
              /\ i + 5 * n - 1 <= Len(text)
              /\ \A j \in i .. i + 4 * n - 1 : text[j + n] = text[j]
     IN  (repeats \/ Len(text) < 10) => quality.garbage

\* C25 for the texts without a line break
C25_RepeatsOnOneLineAreGarbage ==
  (quality.pc = "returned" /\ \A i \in 1 .. Len(quality.text) : quality.text[i] # "\n")
     => C25_RepeatsAndShortAreGarbage

\* C26: an uninterrupted extract_pdf_method whose external calls return
\* ends; it runs round 0 and at most 3 retry rounds, and a page is handed
\* to the worker pool at most once in each round.
C26_RunTerminates ==
  /\ <>(pc \in {"done", "raised"})
  /\ [](/\ round_num <= max_retry_rounds + 1
        /\ \A k \in Pages : hist.submits[k] <= round_num + 1
        /\ \A k \in Pages : hist.submits[k] <= max_retry_rounds + 1)

\* the run has ended after using the three retry rounds
C26_Witness ==
  /\ pc = "done"
  /\ round_num = max_retry_rounds + 1
  /\ \E k \in Pages : hist.submits[k] = max_retry_rounds + 1

\* C27: an entry that the Result Map or the progress snapshot holds for a
\* page that was handed to the worker pool is there because the extraction
\* of the page ran to its end with the flag clear; a page whose extraction
\* was skipped or cut short by the flag has no entry.
C27_StoredOnlyIfExtracted ==
  \A k \in Pages :
     (hist.submits[k] > 0 /\ ~HasPage(hist.loaded, k)) =>
        /\ k \in DOMAIN results => k \in DOMAIN hist.extracted
        /\ HasPage(progress, k) => k \in DOMAIN hist.extracted

\* C29: a step that mutates the Result Map or the unsaved counter is taken
\* at a place that holds results_lock, and a step that mutates the Retry Set
\* at a place that holds retry_lock, whenever a pool thread or a cleaning
\* thread can still be running (the assignments that bind a new set or a
\* returned one, at the entry and the return of _run_pipeline, are not
\* mutations).
C29_MutationsUnderLock ==
  [][LET alive == \/ \E w \in Workers : workers[w].pc # "idle"
                  \/ \E c \in Cleaners : cleaners[c].pc # "dead"
         site ==
           IF pc = "classify" /\ page_i' # page_i THEN "classify"
           ELSE IF pc = "finish" /\ pc' = "final" THEN "setdefault"
           ELSE IF \E w \in Workers :
                     workers[w].pc = "callback" /\ workers'[w] # workers[w]
                THEN "callback"
           ELSE IF \E c \in Cleaners :
                     cleaners[c].pc = "pop" /\ cleaners'[c] # cleaners[c]
                THEN "clean_pop"
           ELSE IF \E c \in Cleaners :
                     cleaners[c].pc = "clean" /\ cleaners'[c] # cleaners[c]
                THEN (IF retry_pages' # retry_pages THEN "clean_retry"
                      ELSE "clean_store")
           ELSE "none"
         rebinding == pc \in {"enter", "retry_enter"}
     IN  /\ ((results' # results \/ unsaved' # unsaved) /\ ~rebinding) =>
               \E s \in MutationSites :
                  s.site = site /\ (s.lock = "results_lock" \/ ~alive)
         /\ (retry_pages' # retry_pages /\ ~rebinding) =>
               \E s \in MutationSites :
                  s.site = site /\ (s.lock = "retry_lock" \/ ~alive)]_vars

\* C30: the context given to the cleaning of page N is the text the Result
\* Map holds for page N-1 and for page N+1 when the context is read, and
\* the empty text for a neighbour that has no entry.
C30_ContextFromImmediateNeighbours ==
  [][(cleaning.pc = "read" /\ cleaning'.pc = "context") =>
        LET n == cleaning.idx
        IN  /\ cleaning'.prev_text =
                 (IF n - 1 \in DOMAIN results THEN results[n - 1] ELSE "")
            /\ cleaning'.next_text =
                 (IF n + 1 \in DOMAIN results THEN results[n + 1] ELSE "")]_vars

\* C31: in a round with cleaning off, a progress snapshot written over an
\* earlier one holds every page index the earlier one held.
C31_SnapshotNeverRegresses ==
  [][(~do_clean /\ progress.exists /\ progress' # progress) =>
        DOMAIN progress.completed \subseteq DOMAIN progress'.completed]_vars

\* C32: with cleaning on, when a run has completed, every page of method ai
\* that holds non-empty text in the Result Map was handed to smart_clean, in
\* this run or in the interrupted run before it.
C32_CompletedPagesWereCleaned ==
  (do_clean /\ pc = "returned" /\ ret = "results" /\ ~shutdown_flag) =>
    \A k \in DOMAIN results :
      (doc[k] = AiPage /\ results[k] # "") => k \in hist.handed

\* C33: when the cleaning threads of a round with cleaning on have been
\* joined and the round is about to be saved, every page submitted in the
\* round whose OCR result was non-empty has been through smart_clean exactly
\* once, no cleaning item is left on the queue and no cleaning call is
\* still running.
C33_EachPageCleanedOnce ==
  (do_clean /\ pc \in {"save", "save_end"}) =>
    /\ \A k \in hist.round_done :
         (k \in DOMAIN hist.extracted /\ hist.extracted[k] # "") =>
           hist.cleans[k] = 1
    /\ clean_queue = << >>
    /\ \A c \in Cleaners : cleaners[c].pc = "dead"

\* C34: under every interleaving of the calling threads the k-th model
\* returned by next_model is entry k mod n of cfg.models, whatever calls of
\* next_tool_model come in between, and at most one thread is inside the
\* with block of _model_lock.
C34_RoundRobinUnderOneLock ==
  /\ \A i \in 1 .. Len(cursor.handed) :
       cursor.handed[i] = ((i - 1) % NumModels) + 1
  /\ \A t, u \in CursorThreads :
       (/\ cursor.threads[t].pc \in {"locked", "release"}
        /\ cursor.threads[u].pc \in {"locked", "release"}) => t = u
  /\ \A t \in CursorThreads :
       cursor.threads[t].pc \in {"locked", "release"} => cursor.lock = t

\* next_model has wrapped around cfg.models while a call of next_tool_model
\* came in between two of its calls, and a thread waits for the lock
\* that another one still holds
C34_Witness ==
  /\ Len(cursor.handed) > NumModels
  /\ cursor.tool_calls > 0
  /\ \E t, u \in CursorThreads :
       /\ cursor.threads[t].pc = "release"
       /\ cursor.threads[u].pc = "acquire"

\* C35: a retry inside one ocr_vlm call (the attempt number goes up) takes
\* a model different from the one of the attempt before.
C35_RetryTakesOtherModel ==
  [][\A t \in Callers :
       (/\ calls[t].pc \in {"request", "sleep"}
        /\ calls'[t].pc = "attempt"
        /\ calls'[t].attempt = calls[t].attempt + 1)
       => calls'[t].model # calls[t].model]_vars

\* C36: when the cleaning of a page ends unchanged-good (the judge answered
\* that the text has no defect, or the rewrite answered TRUE, failed or
\* returned nothing), the worker leaves the page's entry equal to its OCR
\* text and does not put the page into the Retry Set.
C36_UnchangedGoodKeepsText ==
  [][(/\ cleaning.pc = "handle"
      /\ cleaning'.pc = "idle"
      /\ \/ (cleaning.judge = "N" /\ cleaning.rewrite_calls = 0)
         \/ (cleaning.rewrite_calls = 1
             /\ cleaning.rewrite \in {"TRUE", "fail", ""}))
     => (cleaning'.stored = cleaning.text /\ ~cleaning'.retry)]_vars

\* C38: the worker puts a page into the Retry Set (and removes its entry)
\* only when the rewrite model was called for the page and answered the
\* unfixable sentinel.
C38_RetryOnlyOnUnfixable ==
  [][(cleaning.pc = "handle" /\ cleaning'.pc = "idle" /\ cleaning'.retry)
     => (cleaning.rewrite_calls = 1 /\ cleaning.rewrite = "TEXT_ERROR")]_vars

\* C39: when extract_pdf_method of the single-file script has returned the
\* joined text of a run that was not cancelled (and removed the progress
\* file), every page it put on ocr_queue has been processed and stored, so
\* the Result Map it joined holds every page of the document.
C39_ScriptReturnsAfterAllPages ==
  (pc = "s_returned" /\ ret = "results") =>
    /\ \A n \in 1 .. Len(tasks) : tasks[n].idx \in DOMAIN results
    /\ \A k \in Pages : k \in DOMAIN results

\* C37: each callback that stores an OCR result adds one to the unsaved
\* counter, or, when that makes save_interval, sets it back to 0 and goes
\* on to take a snapshot of the Result Map; nothing else moves the counter
\* inside a round, and between two callbacks it lies in 0 .. save_interval - 1.
C37_UnsavedCountsStoredResults ==
  [][/\ unsaved' \in 0 .. (save_interval - 1)
     /\ \A w \in Workers :
          (/\ workers[w].pc = "callback"
           /\ workers'[w].pc \in {"idle", "snapshot"}
           /\ pc' # "killed"
           /\ ~(workers[w].text = "" /\ ~shutdown_flag))
          => /\ workers[w].task.idx \in DOMAIN results'
             /\ results'[workers[w].task.idx] = workers[w].text
             /\ IF unsaved + 1 = save_interval
                THEN unsaved' = 0 /\ workers'[w].pc = "snapshot"
                ELSE unsaved' = unsaved + 1 /\ workers'[w].pc = "idle"
     /\ (unsaved' # unsaved)
          => \/ \E w \in Workers : /\ workers[w].pc = "callback"
                                   /\ workers'[w].pc \in {"idle", "snapshot"}
             \/ pc \in {"enter", "retry_enter"}]_vars

\* a callback has stored the result that made save_interval: the counter
\* is back at 0 and the thread is about to copy the Result Map
C37_Witness ==
  /\ \E w \in Workers : workers[w].pc = "snapshot"
  /\ unsaved = 0
  /\ Cardinality(DOMAIN hist.extracted) >= save_interval

====
